---- MODULE Spec2Model ----
(***************************************************************************)
(* Retention of a multi-version, index-backed document database            *)
(* (crates/database/src/retention.rs).                                     *)
(*                                                                         *)
(* The leader runs two tasks: the boundary advancer                        *)
(* (go_advance_min_snapshot) and the deleter (go_delete).  Each task is a  *)
(* record with a program counter; one action is one stretch of code        *)
(* between two suspension points (a persistence read or write, a channel   *)
(* operation, a sleep).  Persistence is the document log, the index rows   *)
(* and the three global cells.                                             *)
(***************************************************************************)
EXTENDS Integers, Sequences, FiniteSets, TLC

\* ------------------------------------------------------------------ bounds
\* Commits stop once latest_ts reaches MaxTs.
MaxTs == 4
\* The leader is restarted (LeaderRetentionManager::new runs again) at most
\* MaxRestarts times.
MaxRestarts == 1

\* Calls of min_snapshot_ts() and min_document_snapshot_ts() a follower has
\* in flight at a time.
MaxCalls == 2

\* ------------------------------------------------------- program constants
\* Timestamp::MIN
TimestampMIN == 0

\* async_channel::bounded(1)
ChannelCapacity == 1
\* The knobs, in timestamp units and scaled to the bounds of the model.
INDEX_RETENTION_DELAY == 1
DOCUMENT_RETENTION_DELAY == 1
RETENTION_READ_CHUNK == 2
RETENTION_DELETE_CHUNK == 2
RETENTION_DELETE_PARALLEL == 2
RETENTION_DELETE_BATCH == 1
RETENTION_FAIL_START_MULTIPLIER == 2
RETENTION_FAIL_ALL_MULTIPLIER == 4

\* The random sample of fail_if_falling_behind is die / DieSteps, for a die of
\* 0..DieSteps-1: a value of [0, 1).
DieSteps == 4

\* Option<Timestamp>: an absent cell, an empty Checkpoint, an empty channel
\* slot.
None == <<>>
Some(v) == <<v>>

\* Option<ResolvedDocument> of a revision: a deleted document, a document of
\* the user table with its "value" field, an index metadata document with its
\* on-disk state; the state "Search" stands for an index whose config is not
\* IndexConfig::Database.
Tombstone == [live |-> FALSE, value |-> 0, state |-> ""]
UserDoc(v) == [live |-> TRUE, value |-> v, state |-> ""]
IndexDoc(state) == [live |-> TRUE, value |-> 0, state |-> state]

DatabaseIndexStates == {"Backfilling", "Enabled"}
IndexDocStates == DatabaseIndexStates \cup {"Search"}

\* The user table and the index metadata table.
UserTable == "table"
IndexTable == "_index"

\* Documents of the user table written by commits, the values of their
\* "value" field, and the value a document is inserted with.
Ids == {"id1"}
Values == {5, 6}
InsertValues == {5}

\* The two indexes of the user table: by_id (no fields) and by_val (the
\* field "value").  BTreeMap order of their ids: by_id < by_val.
IndexIds == <<"by_id", "by_val">>
IndexIdSet == {IndexIds[n] : n \in 1..Len(IndexIds)}

RetentionTypes == {"Index", "Document"}

VARIABLES
    latest_ts,        \* SnapshotManager::latest_ts()
    documents,        \* persistence: the document log, ascending in ts
    index_entries,    \* persistence: the index rows
    globals,          \* persistence: the three PersistenceGlobalKey cells
    bounds,           \* leader: SnapshotBounds
    checkpoint,       \* leader: Checkpoint.checkpoint
    chan,             \* the two capacity-1 channels, by RetentionType
    adv,              \* task go_advance_min_snapshot
    del,              \* task go_delete
    deletes_enabled,  \* knob RETENTION_DELETES_ENABLED of the running process
    restarts,         \* how often the leader was restarted
    call,             \* the last finished call of a read-only operation
    follower          \* FollowerRetentionManager: its bounds, its calls in flight

\* What the callers of the validators and the follower hold.
readers == <<call, follower>>

vars == <<latest_ts, documents, index_entries, globals, bounds, checkpoint,
          chan, adv, del, deletes_enabled, restarts, readers>>

\* ------------------------------------------------------------ small helpers
Max2(a, b) == IF a >= b THEN a ELSE b
Min2(a, b) == IF a <= b THEN a ELSE b
SetMax(S) == CHOOSE x \in S : \A y \in S : y <= x

RECURSIVE SeqSum(_)
SeqSum(s) == IF s = <<>> THEN 0 ELSE Head(s) + SeqSum(Tail(s))

RECURSIVE Flatten(_)
Flatten(ss) == IF ss = <<>> THEN <<>> ELSE Head(ss) \o Flatten(Tail(ss))

\* Stream::try_chunks(n): groups of n items, the last one possibly shorter.
RECURSIVE TryChunks(_, _)
TryChunks(s, n) ==
    IF s = <<>> THEN <<>>
    ELSE IF Len(s) <= n THEN <<s>>
    ELSE <<SubSeq(s, 1, n)>> \o TryChunks(SubSeq(s, n + 1, Len(s)), n)

\* Option<Timestamp>::unwrap_or_default() and the `None => Timestamp::MIN`
\* arms.
UnwrapOrMin(v) == IF v = None THEN TimestampMIN ELSE v[1]

\* ------------------------------------------------------------- persistence
\* The global cell of a retention type.
BoundKey(rt) == IF rt = "Document" THEN "doc_min" ELSE "min"

\* latest_retention_min_snapshot_ts: the cell, an absent cell as
\* Timestamp::MIN.
latest_retention_min_snapshot_ts(g, rt) == UnwrapOrMin(g[BoundKey(rt)])

\* Positions of the log holding a revision of document id.
RevsOf(docs, id) == {n \in 1..Len(docs) : docs[n].id = id}

\* previous_revisions: the position of the latest revision of the document
\* at log position n that is older than it, or 0.
PrevPos(docs, n) ==
    LET older == {m \in RevsOf(docs, docs[n].id) : docs[m].ts < docs[n].ts}
    IN  IF older = {} THEN 0
        ELSE CHOOSE m \in older : \A k \in older : docs[k].ts <= docs[m].ts

\* The latest revision of id in the log, or 0.
LatestPos(docs, id) ==
    IF RevsOf(docs, id) = {} THEN 0
    ELSE CHOOSE m \in RevsOf(docs, id) :
             \A k \in RevsOf(docs, id) : docs[k].ts <= docs[m].ts

\* ResolvedDocument::index_key: the values of the indexed fields, then the id.
IndexedFields(index_id) == IF index_id = "by_val" THEN <<"value">> ELSE <<>>
IndexKey(index_id, id, doc) ==
    [fields |-> IF IndexedFields(index_id) = <<>> THEN <<>> ELSE <<doc.value>>,
     id |-> id]

IdNum(id) == CHOOSE n \in 1..6 : id = <<"id1", "id2", "id3", "id4", "id5", "id6">>[n]

\* Sha256::hash of the key bytes: one number per key.
Sha256(key) == SeqSum(key.fields) * 10 + IdNum(key.id)

\* Indexes with a live, non-backfilling metadata document in the log: the
\* indexes a commit writes rows for.
Registry(docs) ==
    {j \in IndexIdSet : LatestPos(docs, j) # 0
                        /\ docs[LatestPos(docs, j)].doc = IndexDoc("Enabled")}

Row(index_id, key, ts, deleted) ==
    [index_id |-> index_id, key |-> key, ts |-> ts, deleted |-> deleted]

\* The rows a commit of (ts, id, value) writes for one index: the row of the
\* new key, and a tombstone row of the old key when the key changed or the
\* document was deleted.
RowsOfWrite(docs, index_id, ts, id, doc) ==
    LET p == LatestPos(docs, id)
        old == IF p = 0 THEN Tombstone ELSE docs[p].doc
        new_rows == IF doc = Tombstone THEN {}
                    ELSE {Row(index_id, IndexKey(index_id, id, doc), ts, FALSE)}
        old_rows == IF old = Tombstone THEN {}
                    ELSE IF doc # Tombstone
                            /\ IndexKey(index_id, id, old) = IndexKey(index_id, id, doc)
                         THEN {}
                         ELSE {Row(index_id, IndexKey(index_id, id, old), ts, TRUE)}
    IN  new_rows \cup old_rows

\* index_scan of an index at snapshot s: per key the latest row at or below
\* s, when it is not a tombstone; as (id, ts) pairs.
IndexScan(rows, index_id, s) ==
    LET visible == {r \in rows : r.index_id = index_id /\ r.ts <= s}
        latest == {r \in visible :
                      \A q \in visible : q.key = r.key => q.ts <= r.ts}
    IN  {<<r.key, r.ts>> : r \in {q \in latest : ~q.deleted}}

\* A revision of the document log.
Rev(ts, id, table, doc) == [ts |-> ts, id |-> id, table |-> table, doc |-> doc]

\* ------------------------------------------------- index-set accumulation
\* The table an index of all_indexes is on (GenericIndexName::table).
TableOfIndex(index_id) == UserTable

\* A variant that takes the index of a deleted index document out of the map.
accumulate_index_document_Remove(rev, all_indexes) ==
    IF rev.doc = Tombstone THEN all_indexes \ {rev.id}
    ELSE IF rev.table # IndexTable THEN all_indexes
    ELSE IF rev.doc.state \notin DatabaseIndexStates THEN all_indexes
    ELSE IF rev.doc.state = "Backfilling" THEN all_indexes
    ELSE all_indexes \cup {rev.id}

\* accumulate_index_document: only adds; skips a deleted document, a
\* document of another table, an index that is not a database index and a
\* backfilling index.
accumulate_index_document(rev, all_indexes) ==
    IF rev.doc = Tombstone THEN all_indexes
    ELSE IF rev.table # IndexTable THEN all_indexes
    ELSE IF rev.doc.state \notin DatabaseIndexStates THEN all_indexes
    ELSE IF rev.doc.state = "Backfilling" THEN all_indexes
    ELSE all_indexes \cup {rev.id}

RECURSIVE AccumulateAll(_, _)
AccumulateAll(revs, all_indexes) ==
    IF revs = <<>> THEN all_indexes
    ELSE AccumulateAll(Tail(revs), accumulate_index_document(Head(revs), all_indexes))

\* The document stream of accumulate_indexes:
\* load_documents(TimestampRange::greater_than(cursor), Order::Asc).
DocsAfter(docs, cursor) == SelectSeq(docs, LAMBDA r : r.ts > cursor)

\* The scan of the index metadata table at snapshot ts in
\* LeaderRetentionManager::new: the latest revision of every index document
\* at or below ts, accumulated into an empty map.
indexes_at_min_snapshot(docs, ts) ==
    LET at == SelectSeq(docs, LAMBDA r :
                  /\ r.table = IndexTable /\ r.ts <= ts /\ r.doc # Tombstone
                  /\ \A n \in RevsOf(docs, r.id) :
                         docs[n].ts <= ts => docs[n].ts <= r.ts)
    IN  AccumulateAll(at, {})

\* ---------------------------------------------------- expired index entries
IndexEntry(index_id, key, ts, deleted) ==
    [index_id |-> index_id, key |-> key, key_sha256 |-> Sha256(key),
     ts |-> ts, deleted |-> deleted]

\* The indexes of all_indexes on a table, in BTreeMap order.
IndexesOnTable(all_indexes, table) ==
    SelectSeq(IndexIds, LAMBDA i : i \in all_indexes /\ TableOfIndex(i) = table)

\* A variant that gives the previous revision's entry the timestamp of the
\* new revision.
ExpiredOfIndex_AtNewTs(prev, rev, index_id) ==
    LET index_key == IndexKey(index_id, prev.id, prev.doc)
        first == IndexEntry(index_id, index_key, rev.ts, FALSE)
        second == IndexEntry(index_id, index_key, rev.ts, TRUE)
    IN  IF rev.doc # Tombstone
           /\ index_key = IndexKey(index_id, rev.id, rev.doc)
        THEN <<first>>
        ELSE <<first, second>>

\* A variant without the comparison of the keys: the tombstone is always
\* emitted.
ExpiredOfIndex_AlwaysTombstone(prev, rev, index_id) ==
    LET index_key == IndexKey(index_id, prev.id, prev.doc)
        first == IndexEntry(index_id, index_key, prev.ts, FALSE)
        second == IndexEntry(index_id, index_key, rev.ts, TRUE)
    IN  <<first, second>>

\* The entries of one revision under one index: the previous revision's row,
\* and the tombstone at ts unless the new document has the same key.
ExpiredOfIndex(prev, rev, index_id) ==
    LET index_key == IndexKey(index_id, prev.id, prev.doc)
        first == IndexEntry(index_id, index_key, prev.ts, FALSE)
        second == IndexEntry(index_id, index_key, rev.ts, TRUE)
    IN  IF rev.doc # Tombstone
           /\ index_key = IndexKey(index_id, rev.id, rev.doc)
        THEN <<first>>
        ELSE <<first, second>>

\* A variant in which a revision without a previous revision yields the
\* tombstone entry of its own id under every index of its table.
ExpiredOfRevision_NoPrev(docs, n, all_indexes) ==
    LET p == PrevPos(docs, n)
        on == IndexesOnTable(all_indexes, docs[n].table)
    IN  IF p = 0
        THEN [k \in 1..Len(on) |->
                 IndexEntry(on[k], [fields |-> <<>>, id |-> docs[n].id], docs[n].ts, TRUE)]
        ELSE IF docs[p].doc = Tombstone THEN <<>>
        ELSE Flatten([k \in 1..Len(on) |-> ExpiredOfIndex(docs[p], docs[n], on[k])])

\* A variant that does not skip a revision whose previous revision is a
\* tombstone.
ExpiredOfRevision_DeletedPrev(docs, n, all_indexes) ==
    LET p == PrevPos(docs, n)
        on == IndexesOnTable(all_indexes, docs[n].table)
    IN  IF p = 0 THEN <<>>
        ELSE Flatten([k \in 1..Len(on) |-> ExpiredOfIndex(docs[p], docs[n], on[k])])

\* The loop body for the revision at log position n: nothing without a
\* previous revision, nothing (and an error report) when the previous
\* revision is a tombstone.
ExpiredOfRevision(docs, n, all_indexes) ==
    LET p == PrevPos(docs, n)
        on == IndexesOnTable(all_indexes, docs[n].table)
    IN  IF p = 0 THEN <<>>
        ELSE IF docs[p].doc = Tombstone THEN <<>>
        ELSE Flatten([k \in 1..Len(on) |-> ExpiredOfIndex(docs[p], docs[n], on[k])])

\* The revisions of a chunk whose previous revision is a tombstone.
Inconsistent(docs, chunk) ==
    SelectSeq(chunk, LAMBDA n : PrevPos(docs, n) # 0
                                /\ docs[PrevPos(docs, n)].doc = Tombstone)

\* A variant in which the inconsistency is an error of the stream: the chunk
\* yields nothing from the first revision whose previous revision is a
\* tombstone.
ExpiredOfChunk_FailOnInconsistency(docs, chunk, all_indexes) ==
    LET bad == Inconsistent(docs, chunk)
        ok == SelectSeq(chunk, LAMBDA n : bad = <<>> \/ docs[n].ts < docs[bad[1]].ts)
    IN  Flatten([k \in 1..Len(ok) |-> ExpiredOfRevision(docs, ok[k], all_indexes)])

\* One read chunk: previous_revisions of the chunk, then the loop.
ExpiredOfChunk(docs, chunk, all_indexes) ==
    Flatten([k \in 1..Len(chunk) |-> ExpiredOfRevision(docs, chunk[k], all_indexes)])

\* The errors the loop reports for one read chunk: one for every revision
\* whose previous revision is a tombstone, with the document, the timestamp of
\* the tombstone and the timestamp of the revision.
ReportedOfChunk(docs, chunk) ==
    LET bad == Inconsistent(docs, chunk)
    IN  [k \in 1..Len(bad) |->
            [id |-> docs[bad[k]].id, prev_rev_ts |-> docs[PrevPos(docs, bad[k])].ts,
             ts |-> docs[bad[k]].ts]]

\* load_documents(TimestampRange::new(cursor..min_snapshot_ts), Order::Asc):
\* the log positions of the range.
PositionsInRange(docs, cursor, min_snapshot_ts) ==
    SelectSeq([n \in 1..Len(docs) |-> n],
              LAMBDA n : cursor <= docs[n].ts /\ docs[n].ts < min_snapshot_ts)

\* expired_index_entries: the stream, read in chunks of RETENTION_READ_CHUNK.
expired_index_entries(docs, cursor, min_snapshot_ts, all_indexes) ==
    LET chunks == TryChunks(PositionsInRange(docs, cursor, min_snapshot_ts),
                            RETENTION_READ_CHUNK)
    IN  Flatten([c \in 1..Len(chunks) |-> ExpiredOfChunk(docs, chunks[c], all_indexes)])

\* What expired_index_entries hands to report_error while it is read to its
\* end.
reported_by_expired_index_entries(docs, cursor, min_snapshot_ts) ==
    LET chunks == TryChunks(PositionsInRange(docs, cursor, min_snapshot_ts),
                            RETENTION_READ_CHUNK)
    IN  Flatten([c \in 1..Len(chunks) |-> ReportedOfChunk(docs, chunks[c])])

\* ------------------------------------------------------------ construction
\* The deleter's locals when go_delete starts: all_indexes is the scan at
\* min_snapshot_ts, index_cursor is min_snapshot_ts, min_snapshot_ts is
\* Timestamp::default(), is_working is false.  The locals of the try block,
\* of a delete() call and of a group of shards hold idle values outside
\* their scope.
DeleterStart(docs, min_snapshot_ts) ==
    [pc |-> "recv",
     min_snapshot_ts |-> TimestampMIN,
     is_working |-> FALSE,
     all_indexes |-> indexes_at_min_snapshot(docs, min_snapshot_ts),
     index_cursor |-> min_snapshot_ts,
     cursor |-> TimestampMIN,
     index_count_before |-> 0,
     new_cursor |-> TimestampMIN,
     total_expired_entries |-> 0,
     total_deleted_rows |-> 0,
     chunk_no |-> 0,
     pending |-> {},
     chunk_new_cursors |-> {},
     deleted_rows |-> 0,
     returned |-> "none"]

\* The advancer starts in its jittered startup wait.
AdvancerStart == [pc |-> "wait", rt |-> "Index", candidate |-> TimestampMIN]

\* A variant that reads the document cell for both bounds.
NewBounds_DocumentCell(g) ==
    [min_snapshot_ts |-> latest_retention_min_snapshot_ts(g, "Document"),
     min_document_snapshot_ts |-> latest_retention_min_snapshot_ts(g, "Document")]

\* SnapshotBounds built by LeaderRetentionManager::new from the two cells.
NewBounds(g) ==
    [min_snapshot_ts |-> latest_retention_min_snapshot_ts(g, "Index"),
     min_document_snapshot_ts |-> latest_retention_min_snapshot_ts(g, "Document")]

\* A finished call: the operation, its timestamp argument (for
\* fail_if_falling_behind the system time), the random sample and the knob
\* RETENTION_FAIL_ENABLED it ran with, and what it returned.
Call(op, ts, die, enabled, result) ==
    [op |-> op, ts |-> ts, die |-> die, enabled |-> enabled, result |-> result]

\* No call of a read-only operation has finished.
NoCall == Call("none", TimestampMIN, 0, FALSE, "Ok")

\* FollowerRetentionManager::new: both bounds from the cells, no call running.
FollowerStart(g) == [bounds |-> NewBounds(g), reads |-> {}]

\* A fresh deployment: no user document, absent cells; the index documents
\* of by_id, and possibly of by_val, are in the log at Timestamp::MIN.
\* RETENTION_DELETES_ENABLED has its default.
Init ==
    /\ latest_ts = TimestampMIN
    /\ \E with_by_val \in BOOLEAN :
          documents = <<Rev(TimestampMIN, "by_id", IndexTable, IndexDoc("Enabled"))>>
                      \o IF with_by_val
                         THEN <<Rev(TimestampMIN, "by_val", IndexTable, IndexDoc("Enabled"))>>
                         ELSE <<>>
    /\ index_entries = {}
    /\ globals = [min |-> None, doc_min |-> None, confirmed_deleted |-> None]
    /\ bounds = NewBounds(globals)
    /\ checkpoint = None
    /\ chan = [rt \in RetentionTypes |-> <<>>]
    /\ adv = AdvancerStart
    /\ del = DeleterStart(documents, bounds.min_snapshot_ts)
    /\ deletes_enabled = TRUE
    /\ restarts = 0
    /\ call = NoCall
    /\ follower = FollowerStart(globals)

\* LeaderRetentionManager::new on the persisted state of a stopped leader:
\* bounds from the cells, an empty Checkpoint, fresh channels and tasks.  The
\* knob RETENTION_DELETES_ENABLED is read anew by the new process.
Restart ==
    /\ restarts < MaxRestarts
    /\ restarts' = restarts + 1
    /\ bounds' = NewBounds(globals)
    /\ checkpoint' = None
    /\ chan' = [rt \in RetentionTypes |-> <<>>]
    /\ adv' = AdvancerStart
    /\ del' = DeleterStart(documents, bounds'.min_snapshot_ts)
    /\ deletes_enabled' \in BOOLEAN
    /\ UNCHANGED <<latest_ts, documents, index_entries, globals, readers>>

\* ------------------------------------------------------------- environment
\* A committed transaction writing one revision of a user document at the
\* next timestamp, with the rows of every registered index.  A document is
\* inserted once, replaced or deleted while it is live.
Commit ==
    /\ latest_ts < MaxTs
    /\ \E id \in Ids, doc \in {UserDoc(v) : v \in Values} \cup {Tombstone} :
          LET p == LatestPos(documents, id)
              ts == latest_ts + 1
          IN  /\ IF p = 0
                 THEN doc \in {UserDoc(v) : v \in InsertValues}
                 ELSE documents[p].doc # Tombstone
              /\ latest_ts' = ts
              /\ documents' = Append(documents, Rev(ts, id, UserTable, doc))
              /\ index_entries' = index_entries \cup
                    UNION {RowsOfWrite(documents, i, ts, id, doc) : i \in Registry(documents)}
    /\ UNCHANGED <<globals, bounds, checkpoint, chan, adv, del, deletes_enabled, restarts, readers>>

\* A committed transaction that writes none of the documents of Ids and no
\* index document: latest_ts advances.  What it inserts is never written
\* again, so it has no expired entry; it is left out of the log and the rows.
CommitOther ==
    /\ latest_ts < MaxTs
    /\ latest_ts' = latest_ts + 1
    /\ UNCHANGED <<documents, index_entries, globals, bounds, checkpoint, chan,
                   adv, del, deletes_enabled, restarts, readers>>

\* An index becoming enabled: its metadata document is written at the next
\* timestamp and the backfill has written the row of the latest revision of
\* every live document.
AddIndex ==
    /\ latest_ts < MaxTs
    /\ \E i \in IndexIdSet \ Registry(documents) :
          LET ts == latest_ts + 1
              live == {id \in Ids : LatestPos(documents, id) # 0
                                    /\ documents[LatestPos(documents, id)].doc # Tombstone}
          IN  /\ latest_ts' = ts
              /\ documents' = Append(documents, Rev(ts, i, IndexTable, IndexDoc("Enabled")))
              /\ index_entries' = index_entries \cup
                    {Row(i, IndexKey(i, id, documents[LatestPos(documents, id)].doc),
                         documents[LatestPos(documents, id)].ts, FALSE) : id \in live}
    /\ UNCHANGED <<globals, bounds, checkpoint, chan, adv, del, deletes_enabled, restarts, readers>>

\* ---------------------------------------------------------------- advancer
\* The advancer is between two suspension points with pc: "wait" (the sleep),
\* "persist" (write_persistence_global pending), "memory" (the write is done,
\* the in-memory bound not yet advanced), "get_checkpoint" (the read at the
\* end of advance_timestamp pending), "send" (emit_timestamp has run
\* try_recv, its send is pending; the deleter runs on another thread and may
\* receive in between).  The code without a suspension point
\* (candidate_min_snapshot_ts, the skip) runs in the step that reaches it.
RetentionDelay(rt) ==
    IF rt = "Document" THEN DOCUMENT_RETENTION_DELAY ELSE INDEX_RETENTION_DELAY

\* Timestamp::sub fails below Timestamp::MIN.
SubFails(rt) == latest_ts - RetentionDelay(rt) < TimestampMIN

\* A variant without the clamp by the Checkpoint.
candidate_min_snapshot_ts_NoClamp(rt) == latest_ts - RetentionDelay(rt)

\* candidate_min_snapshot_ts: latest_ts - delay, for documents clamped by the
\* Checkpoint (None as Timestamp::MIN).
candidate_min_snapshot_ts(rt) ==
    IF rt = "Document"
    THEN Min2(latest_ts - RetentionDelay(rt), UnwrapOrMin(checkpoint))
    ELSE latest_ts - RetentionDelay(rt)

BoundOf(b, rt) ==
    IF rt = "Document" THEN b.min_document_snapshot_ts ELSE b.min_snapshot_ts

\* A variant that skips only a candidate below the bound.
SkipAdvance_Below(rt) ==
    \/ SubFails(rt)
    \/ candidate_min_snapshot_ts(rt) < BoundOf(bounds, rt)

\* The skip of advance_timestamp: Err of the candidate, or a candidate that
\* is not above the bound (Ok(None)).
SkipAdvance(rt) ==
    \/ SubFails(rt)
    \/ candidate_min_snapshot_ts(rt) <= BoundOf(bounds, rt)

\* A variant of advance_min_snapshot_ts that assigns the candidate.
advance_min_snapshot_ts_Assign(b, candidate) ==
    [b EXCEPT !.min_snapshot_ts = candidate]

\* SnapshotBounds::advance_min_snapshot_ts and
\* SnapshotBounds::advance_min_document_snapshot_ts.
advance_min_snapshot_ts(b, candidate) ==
    [b EXCEPT !.min_snapshot_ts = Max2(b.min_snapshot_ts, candidate)]
advance_min_document_snapshot_ts(b, candidate) ==
    [b EXCEPT !.min_document_snapshot_ts = Max2(b.min_document_snapshot_ts, candidate)]

\* advance_timestamp of the document type up to its write, and the wait when
\* it is skipped.
StartDocument ==
    IF SkipAdvance("Document")
    THEN AdvancerStart
    ELSE [pc |-> "persist", rt |-> "Document",
          candidate |-> candidate_min_snapshot_ts("Document")]

\* What follows emit_timestamp of a retention type in go_advance_min_snapshot.
AfterEmit(rt) == IF rt = "Index" THEN StartDocument ELSE AdvancerStart

\* The wait ends: advance_timestamp of the index type up to its write.
AdvWait ==
    /\ adv.pc = "wait"
    /\ adv' = IF SkipAdvance("Index")
              THEN AfterEmit("Index")
              ELSE [pc |-> "persist", rt |-> "Index",
                    candidate |-> candidate_min_snapshot_ts("Index")]
    /\ UNCHANGED <<latest_ts, documents, index_entries, globals, bounds, checkpoint,
                   chan, del, deletes_enabled, restarts, readers>>

\* A variant that ignores the result of the write: the in-memory bound is
\* advanced after a failed write too.
AdvPersist_IgnoreErr ==
    /\ adv.pc = "persist"
    /\ \/ globals' = [globals EXCEPT ![BoundKey(adv.rt)] = Some(adv.candidate)]
       \/ UNCHANGED globals
    /\ adv' = [adv EXCEPT !.pc = "memory"]
    /\ UNCHANGED <<latest_ts, documents, index_entries, bounds, checkpoint,
                   chan, del, deletes_enabled, restarts, readers>>

\* write_persistence_global of the new bound; a failed write returns Err.
AdvPersist ==
    /\ adv.pc = "persist"
    /\ \/ /\ globals' = [globals EXCEPT ![BoundKey(adv.rt)] = Some(adv.candidate)]
          /\ adv' = [adv EXCEPT !.pc = "memory"]
       \/ /\ adv' = AfterEmit(adv.rt)
          /\ UNCHANGED globals
    /\ UNCHANGED <<latest_ts, documents, index_entries, bounds, checkpoint,
                   chan, del, deletes_enabled, restarts, readers>>

\* The in-memory bound, after the write.
AdvMemory ==
    /\ adv.pc = "memory"
    /\ bounds' = IF adv.rt = "Document"
                 THEN advance_min_document_snapshot_ts(bounds, adv.candidate)
                 ELSE advance_min_snapshot_ts(bounds, adv.candidate)
    /\ adv' = [adv EXCEPT !.pc = "get_checkpoint"]
    /\ UNCHANGED <<latest_ts, documents, index_entries, globals, checkpoint,
                   chan, del, deletes_enabled, restarts, readers>>

\* A channel is the queue of the values sent and not yet received.
\* A variant of try_recv that takes nothing.
try_recv_Nothing(q) == q

\* Receiver::try_recv with its result dropped: the oldest value, if there is
\* one, leaves the queue.
try_recv(q) == IF q = <<>> THEN q ELSE Tail(q)

\* Sender::send completes when the queue is below its capacity and waits
\* while it is full.
CanSend(q) == Len(q) < ChannelCapacity
send(q, v) == Append(q, v)

\* get_checkpoint at the end of advance_timestamp: a failed read makes the
\* result Err and emit_timestamp sends nothing; otherwise emit_timestamp
\* clears out the old value with try_recv and reaches its send.
AdvGetCheckpoint ==
    /\ adv.pc = "get_checkpoint"
    /\ \/ /\ chan' = [chan EXCEPT ![adv.rt] = try_recv(chan[adv.rt])]
          /\ adv' = [adv EXCEPT !.pc = "send"]
       \/ /\ adv' = AfterEmit(adv.rt)
          /\ UNCHANGED chan
    /\ UNCHANGED <<latest_ts, documents, index_entries, globals, bounds, checkpoint,
                   del, deletes_enabled, restarts, readers>>

\* emit_timestamp's send of the new bound.
AdvSend ==
    /\ adv.pc = "send"
    /\ CanSend(chan[adv.rt])
    /\ chan' = [chan EXCEPT ![adv.rt] = send(chan[adv.rt], adv.candidate)]
    /\ adv' = AfterEmit(adv.rt)
    /\ UNCHANGED <<latest_ts, documents, index_entries, globals, bounds, checkpoint,
                   del, deletes_enabled, restarts, readers>>

\* ----------------------------------------------------------------- deleter
\* The deleter is between two suspension points with pc: "recv" (the channel
\* receive), "accumulate_before" (get_checkpoint and the first
\* accumulate_indexes pending; also the backoff wait before a retry),
\* "shards" (a group of delete_chunk calls running), "accumulate_after" (the
\* second accumulate_indexes pending), "checkpoint" (the write of the cell
\* pending), "advance_checkpoint" (the write is done, the Checkpoint not yet
\* advanced).  Only the deleter writes the confirmed-deleted cell and no
\* commit reaches below min_snapshot_ts, so get_checkpoint and the reads of
\* the expired stream return the same at any moment of the pass.

\* A variant that does not read the cell: every pass starts at Timestamp::MIN.
get_checkpoint_FromMin(g) == TimestampMIN

\* get_checkpoint: the confirmed-deleted cell, an absent cell as
\* Timestamp::MIN.
get_checkpoint(g) == UnwrapOrMin(g.confirmed_deleted)

\* Checkpoint::advance_checkpoint.
advance_checkpoint(cp, candidate) == Some(Max2(UnwrapOrMin(cp), candidate))

\* DefaultHasher over key_sha256, as a number.
DefaultHash(key_sha256) == key_sha256 + (key_sha256 \div 10)

\* A variant that partitions by the timestamp of the entry.
partition_chunk_ByTimestamp(to_partition, i) ==
    SelectSeq(to_partition, LAMBDA e : e.ts % RETENTION_DELETE_PARALLEL = i)

\* A variant that hands part 0 to every shard.
partition_chunk_FirstPart(to_partition, i) ==
    SelectSeq(to_partition,
              LAMBDA e : DefaultHash(e.key_sha256) % RETENTION_DELETE_PARALLEL = 0)

\* partition_chunk: part i of the chunk, i in 0..RETENTION_DELETE_PARALLEL-1.
partition_chunk(to_partition, i) ==
    SelectSeq(to_partition,
              LAMBDA e : DefaultHash(e.key_sha256) % RETENTION_DELETE_PARALLEL = i)

\* Persistence::index_entries_to_delete: the rows of the candidates that
\* exist, matched on index, key and timestamp.
index_entries_to_delete(rows, candidates) ==
    {r \in rows : \E k \in 1..Len(candidates) :
        /\ candidates[k].index_id = r.index_id
        /\ candidates[k].ts = r.ts
        /\ candidates[k].key = r.key}

\* The cursor loop of delete_chunk over the rows to delete.
ChunkCursor(new_cursor, to_delete) ==
    LET preds == {r.ts - 1 : r \in {q \in to_delete : q.ts > TimestampMIN}}
    IN  IF preds = {} THEN new_cursor ELSE Max2(new_cursor, SetMax(preds))

\* The expired stream of the delete() call of d, in groups of
\* RETENTION_DELETE_CHUNK.
ExpiredChunks(d) ==
    TryChunks(expired_index_entries(documents, d.cursor, d.min_snapshot_ts,
                                    d.all_indexes),
              RETENTION_DELETE_CHUNK)

\* The shard numbers.
Shards == 0..(RETENTION_DELETE_PARALLEL - 1)

\* The locals of a delete() call and of a group at their idle values.
IdleCall(d) ==
    [d EXCEPT !.chunk_no = 0, !.pending = {}, !.chunk_new_cursors = {},
              !.deleted_rows = 0]

\* The locals of the try block at their idle values.
IdlePass(d) ==
    [IdleCall(d) EXCEPT !.cursor = TimestampMIN, !.index_count_before = 0,
                        !.new_cursor = TimestampMIN, !.total_expired_entries = 0,
                        !.total_deleted_rows = 0, !.returned = "none"]

\* delete() returns (new_cursor, total_expired_entries); the second
\* accumulate_indexes is next.
Returned(d, new_cursor, returned) ==
    [IdleCall(d) EXCEPT !.pc = "accumulate_after",
                        !.new_cursor = new_cursor,
                        !.returned = returned]

\* A variant without pred(): the boundary itself.
DrainedCursor_NoPred(min_snapshot_ts) == min_snapshot_ts

\* The cursor delete() returns when the stream has drained:
\* min_snapshot_ts.pred().
DrainedCursor(min_snapshot_ts) == min_snapshot_ts - 1

\* expired_chunks.try_next(): the next group is partitioned and its shards
\* start, or the stream has drained.
NextChunk(d) ==
    IF d.chunk_no < Len(ExpiredChunks(d))
    THEN [d EXCEPT !.pc = "shards",
                   !.chunk_no = d.chunk_no + 1,
                   !.total_expired_entries =
                       d.total_expired_entries + Len(ExpiredChunks(d)[d.chunk_no + 1]),
                   !.pending = Shards,
                   !.chunk_new_cursors = {},
                   !.deleted_rows = 0]
    ELSE Returned(d, DrainedCursor(d.min_snapshot_ts), "drained")

\* A variant that tests the boundary only.
ShortCircuit_BoundaryOnly(d) == d.min_snapshot_ts = TimestampMIN

\* The short-circuit of delete().
ShortCircuit(d) == ~deletes_enabled \/ d.min_snapshot_ts = TimestampMIN

\* The call of delete() up to its first group.
DeleteCall(d) ==
    IF ShortCircuit(d)
    THEN Returned([d EXCEPT !.total_expired_entries = 0, !.total_deleted_rows = 0],
                  d.cursor, "short")
    ELSE NextChunk([d EXCEPT !.new_cursor = d.cursor,
                             !.total_expired_entries = 0,
                             !.total_deleted_rows = 0,
                             !.chunk_no = 0])

\* The condition of the early return of delete().
EarlyReturn(new_cursor, cursor, total_expired_entries) ==
    new_cursor > cursor /\ total_expired_entries > RETENTION_DELETE_BATCH

\* try_join_all has all results of the group: the counters, the group's
\* cursor, the early return or the next group.
AfterGroup(d) ==
    LET new_cursor == SetMax(d.chunk_new_cursors)
        joined == [d EXCEPT !.new_cursor = new_cursor,
                            !.total_deleted_rows = d.total_deleted_rows + d.deleted_rows]
    IN  IF EarlyReturn(new_cursor, d.cursor, d.total_expired_entries)
        THEN Returned(joined, new_cursor, "early")
        ELSE NextChunk(joined)

\* A whole call of delete() on the rows `rows` with the arguments of d, no
\* operation failing and nothing else running: the groups in order, the
\* shards of a group joined, up to the early return or the drained stream.
\* The result holds the rows left and what delete() returns and logs.
RECURSIVE DeleteGroups(_, _, _, _)
DeleteGroups(run, chunks, n, d) ==
    IF n > Len(chunks)
    THEN [run EXCEPT !.new_cursor = DrainedCursor(d.min_snapshot_ts),
                     !.returned = "drained"]
    ELSE LET to_delete(i) == index_entries_to_delete(run.rows,
                                                     partition_chunk(chunks[n], i))
             new_cursor == SetMax({ChunkCursor(run.new_cursor, to_delete(i)) : i \in Shards})
             deleted == UNION {to_delete(i) : i \in Shards}
             joined == [run EXCEPT !.rows = run.rows \ deleted,
                                   !.new_cursor = new_cursor,
                                   !.total_expired_entries =
                                       run.total_expired_entries + Len(chunks[n]),
                                   !.total_deleted_rows =
                                       run.total_deleted_rows + Cardinality(deleted)]
         IN  IF EarlyReturn(new_cursor, d.cursor, joined.total_expired_entries)
             THEN [joined EXCEPT !.returned = "early"]
             ELSE DeleteGroups(joined, chunks, n + 1, d)

DeleteRun(rows, d) ==
    LET start == [rows |-> rows, new_cursor |-> d.cursor,
                  total_expired_entries |-> 0, total_deleted_rows |-> 0,
                  returned |-> "short"]
    IN  IF ShortCircuit(d) THEN start
        ELSE DeleteGroups(start, ExpiredChunks(d), 1, d)

\* A variant in which the loop goes on only above the batch size.
Finish_Exclusive(d) ==
    LET is_working == d.total_expired_entries > RETENTION_DELETE_BATCH
    IN  [IdlePass(d) EXCEPT !.is_working = is_working,
                            !.pc = IF is_working THEN "accumulate_before" ELSE "recv"]

\* The end of the try block: is_working, and the next iteration.
Finish(d) ==
    LET is_working == d.total_expired_entries >= RETENTION_DELETE_BATCH
    IN  [IdlePass(d) EXCEPT !.is_working = is_working,
                            !.pc = IF is_working THEN "accumulate_before" ELSE "recv"]

\* min_snapshot_rx.recv() while not working: it waits on an empty queue and
\* takes the oldest value.
DelRecv ==
    /\ del.pc = "recv"
    /\ chan["Index"] # <<>>
    /\ del' = [del EXCEPT !.pc = "accumulate_before",
                          !.min_snapshot_ts = Head(chan["Index"]),
                          !.is_working = TRUE]
    /\ chan' = [chan EXCEPT !["Index"] = Tail(chan["Index"])]
    /\ UNCHANGED <<latest_ts, documents, index_entries, globals, bounds, checkpoint,
                   adv, deletes_enabled, restarts, readers>>

\* accumulate_indexes reading the first k documents of its stream.
Accumulated(d, k) ==
    LET stream == DocsAfter(documents, d.index_cursor)
    IN  [d EXCEPT !.all_indexes = AccumulateAll(SubSeq(stream, 1, k), d.all_indexes),
                  !.index_cursor = IF k = 0 THEN d.index_cursor ELSE stream[k].ts]

\* The pass up to the first group of delete(): the cursor from the
\* confirmed-deleted cell, the first accumulate_indexes, index_count_before
\* and the call of delete().
DelAccumulateBefore ==
    /\ del.pc = "accumulate_before"
    /\ LET d == Accumulated(del, Len(DocsAfter(documents, del.index_cursor)))
       IN  del' = DeleteCall([d EXCEPT !.cursor = get_checkpoint(globals),
                                       !.index_count_before = Cardinality(d.all_indexes)])
    /\ UNCHANGED <<latest_ts, documents, index_entries, globals, bounds, checkpoint,
                   chan, adv, deletes_enabled, restarts, readers>>

\* A variant in which the last shard computes its rows and cursor but does not
\* run the bulk delete.
delete_chunk_NoBulkDelete(i) ==
    LET part == partition_chunk(ExpiredChunks(del)[del.chunk_no], i)
        to_delete == index_entries_to_delete(index_entries, part)
        d == [del EXCEPT !.pending = del.pending \ {i},
                         !.chunk_new_cursors =
                             del.chunk_new_cursors
                             \cup {ChunkCursor(del.new_cursor, to_delete)},
                         !.deleted_rows = del.deleted_rows + Cardinality(to_delete)]
    IN  /\ index_entries' = IF i = RETENTION_DELETE_PARALLEL - 1
                            THEN index_entries
                            ELSE index_entries \ to_delete
        /\ del' = IF d.pending = {} THEN AfterGroup(d) ELSE d

\* delete_chunk of one shard of the group: the rows that exist, the shard's
\* cursor, the bulk delete; after the last shard, the join.
delete_chunk(i) ==
    LET part == partition_chunk(ExpiredChunks(del)[del.chunk_no], i)
        to_delete == index_entries_to_delete(index_entries, part)
        d == [del EXCEPT !.pending = del.pending \ {i},
                         !.chunk_new_cursors =
                             del.chunk_new_cursors
                             \cup {ChunkCursor(del.new_cursor, to_delete)},
                         !.deleted_rows = del.deleted_rows + Cardinality(to_delete)]
    IN  /\ index_entries' = index_entries \ to_delete
        /\ del' = IF d.pending = {} THEN AfterGroup(d) ELSE d

DelShard ==
    /\ del.pc = "shards"
    /\ \E i \in del.pending : delete_chunk(i)
    /\ UNCHANGED <<latest_ts, documents, globals, bounds, checkpoint,
                   chan, adv, deletes_enabled, restarts, readers>>

\* A variant without the comparison: the checkpoint is always taken.
IndexCountUnchanged_Always(d) == TRUE

\* The comparison of the index count after the second accumulate_indexes.
IndexCountUnchanged(d) == Cardinality(d.all_indexes) = d.index_count_before

\* The second accumulate_indexes: with the index count unchanged the
\* checkpoint is next, otherwise it is skipped and the pass ends.
DelAccumulateAfter ==
    /\ del.pc = "accumulate_after"
    /\ LET d == Accumulated(del, Len(DocsAfter(documents, del.index_cursor)))
       IN  del' = IF IndexCountUnchanged(d)
                  THEN [d EXCEPT !.pc = "checkpoint"]
                  ELSE Finish(d)
    /\ UNCHANGED <<latest_ts, documents, index_entries, globals, bounds, checkpoint,
                   chan, adv, deletes_enabled, restarts, readers>>

\* A variant of checkpoint() that advances the Checkpoint and writes no cell.
DelCheckpointPersist_MemoryOnly ==
    /\ del.pc = "checkpoint"
    /\ checkpoint' = advance_checkpoint(checkpoint, del.new_cursor)
    /\ del' = [del EXCEPT !.pc = "advance_checkpoint"]
    /\ UNCHANGED <<latest_ts, documents, index_entries, globals, bounds,
                   chan, adv, deletes_enabled, restarts, readers>>

\* checkpoint(): the confirmed-deleted cell is written.
DelCheckpointPersist ==
    /\ del.pc = "checkpoint"
    /\ globals' = [globals EXCEPT !.confirmed_deleted = Some(del.new_cursor)]
    /\ del' = [del EXCEPT !.pc = "advance_checkpoint"]
    /\ UNCHANGED <<latest_ts, documents, index_entries, bounds, checkpoint,
                   chan, adv, deletes_enabled, restarts, readers>>

\* checkpoint(): the in-memory Checkpoint, after the write; the pass ends.
DelAdvanceCheckpoint ==
    /\ del.pc = "advance_checkpoint"
    /\ checkpoint' = advance_checkpoint(checkpoint, del.new_cursor)
    /\ del' = Finish(del)
    /\ UNCHANGED <<latest_ts, documents, index_entries, globals, bounds,
                   chan, adv, deletes_enabled, restarts, readers>>

\* A variant in which an error sends the deleter back to the channel.
Failed_Receive(d) == [IdlePass(d) EXCEPT !.pc = "recv", !.is_working = FALSE]

\* A variant in which an error ends the task.
Failed_Stopped(d) == [IdlePass(d) EXCEPT !.pc = "stopped"]

\* The pass after an error: the report, the backoff wait and the retry;
\* is_working stays true.
Failed(d) == [IdlePass(d) EXCEPT !.pc = "accumulate_before"]

\* A failed persistence operation of the pass: the try block ends with Err.
\* A failing accumulate_indexes has read a prefix of its stream; a failing
\* group leaves the shards that completed.
DelError ==
    /\ \/ /\ del.pc \in {"shards", "checkpoint"}
          /\ del' = Failed(del)
       \/ /\ del.pc \in {"accumulate_before", "accumulate_after"}
          /\ \E k \in 0..Len(DocsAfter(documents, del.index_cursor)) :
                del' = Failed(Accumulated(del, k))
    /\ UNCHANGED <<latest_ts, documents, index_entries, globals, bounds, checkpoint,
                   chan, adv, deletes_enabled, restarts, readers>>

\* ------------------------------------------------------------ specification
Next ==
    \/ Commit
    \/ CommitOther
    \/ AddIndex
    \/ Restart
    \/ AdvWait
    \/ AdvPersist
    \/ AdvMemory
    \/ AdvGetCheckpoint
    \/ AdvSend
    \/ DelRecv
    \/ DelAccumulateBefore
    \/ DelShard
    \/ DelAccumulateAfter
    \/ DelCheckpointPersist
    \/ DelAdvanceCheckpoint
    \/ DelError

Spec == Init /\ [][Next]_vars

\* The two tasks are spawned on the runtime and their waits (the tick, the
\* backoff, a persistence call) end: a task that can take a step takes one.
AdvancerTask == AdvWait \/ AdvPersist \/ AdvMemory \/ AdvGetCheckpoint \/ AdvSend
DeleterPass ==
    \/ DelAccumulateBefore
    \/ DelAccumulateAfter
    \/ DelCheckpointPersist
    \/ DelAdvanceCheckpoint

\* The leader with no write to the modelled documents, its tasks scheduled
\* fairly.
NextLive ==
    \/ CommitOther
    \/ Restart
    \/ AdvWait
    \/ AdvPersist
    \/ AdvMemory
    \/ AdvGetCheckpoint
    \/ AdvSend
    \/ DelRecv
    \/ DelAccumulateBefore
    \/ DelAccumulateAfter
    \/ DelCheckpointPersist
    \/ DelAdvanceCheckpoint
    \/ DelError

SpecLive ==
    Init /\ [][NextLive]_vars /\ WF_vars(AdvancerTask) /\ WF_vars(DeleterPass)

\* ------------------------------------------------- the channel falling over
\* shutdown() stops the advancer first: its future is dropped with both
\* senders, wherever it was, and the channels are closed.  The deleter is
\* stopped next; a stopped deleter takes no step.
AdvShutdown ==
    /\ adv.pc # "shutdown"
    /\ adv' = [adv EXCEPT !.pc = "shutdown"]
    /\ UNCHANGED <<latest_ts, documents, index_entries, globals, bounds, checkpoint,
                   chan, del, deletes_enabled, restarts, readers>>

\* A variant of the fallback that reads the persisted cell.
FallbackBoundary_Persisted(b, g) == latest_retention_min_snapshot_ts(g, "Index")

\* The boundary of the fallback: bounds_reader.lock().min_snapshot_ts.
FallbackBoundary(b, g) == b.min_snapshot_ts

\* min_snapshot_rx.recv() returns Err on a closed and empty channel: the
\* report, the wait with jitter, and the boundary read from memory.
DelRecvErr ==
    /\ del.pc = "recv"
    /\ adv.pc = "shutdown"
    /\ chan["Index"] = <<>>
    /\ del' = [del EXCEPT !.pc = "accumulate_before",
                          !.min_snapshot_ts = FallbackBoundary(bounds, globals),
                          !.is_working = TRUE]
    /\ UNCHANGED <<latest_ts, documents, index_entries, globals, bounds, checkpoint,
                   chan, adv, deletes_enabled, restarts, readers>>

\* The leader with the shutdown of its advancer, no index being added and no
\* operation of the deleter failing.
NextShutdown ==
    \/ Commit
    \/ CommitOther
    \/ Restart
    \/ AdvWait
    \/ AdvPersist
    \/ AdvMemory
    \/ AdvGetCheckpoint
    \/ AdvSend
    \/ AdvShutdown
    \/ DelRecv
    \/ DelRecvErr
    \/ DelAccumulateBefore
    \/ DelShard
    \/ DelAccumulateAfter
    \/ DelCheckpointPersist
    \/ DelAdvanceCheckpoint

SpecShutdown == Init /\ [][NextShutdown]_vars
\* ------------------------------------------------- the leader without errors
\* The steps of the advancer when no persistence operation fails.
AdvPersistOk == AdvPersist /\ adv'.pc = "memory"
AdvGetCheckpointOk == AdvGetCheckpoint /\ adv'.pc = "send"

AdvancerOk == AdvWait \/ AdvPersistOk \/ AdvMemory \/ AdvGetCheckpointOk \/ AdvSend

\* The deleter with its receive.
DeleterTask == DelRecv \/ DeleterPass

\* A fresh leader that is not constructed again, with no write to the
\* modelled documents and no failing operation.
NextBootstrap ==
    \/ CommitOther
    \/ AdvWait
    \/ AdvPersistOk
    \/ AdvMemory
    \/ AdvGetCheckpointOk
    \/ AdvSend
    \/ DelRecv
    \/ DelAccumulateBefore
    \/ DelAccumulateAfter
    \/ DelCheckpointPersist
    \/ DelAdvanceCheckpoint

\* Transactions keep committing, and the two tasks are scheduled fairly.
SpecBootstrap ==
    /\ Init
    /\ [][NextBootstrap]_vars
    /\ WF_vars(CommitOther)
    /\ WF_vars(AdvancerOk)
    /\ WF_vars(DeleterTask)
\* ----------------------------------------- accumulation over any index log
\* A committed write of an index metadata document: an index is created or
\* changes its state or config, or a live index is dropped.  No user document
\* exists, so a backfill writes no row.
WriteIndexDocument ==
    /\ latest_ts < MaxTs
    /\ \E i \in IndexIdSet, doc \in {IndexDoc(st) : st \in IndexDocStates} \cup {Tombstone} :
          /\ doc = Tombstone =>
                /\ LatestPos(documents, i) # 0
                /\ documents[LatestPos(documents, i)].doc # Tombstone
          /\ latest_ts' = latest_ts + 1
          /\ documents' = Append(documents, Rev(latest_ts + 1, i, IndexTable, doc))
    /\ UNCHANGED <<index_entries, globals, bounds, checkpoint, chan, adv, del,
                   deletes_enabled, restarts, readers>>

\* accumulate_indexes of the deleter on the log as it is: it reads its whole
\* stream, or fails after a part of it.
AccumulateIndexes ==
    /\ DocsAfter(documents, del.index_cursor) # <<>>
    /\ \E k \in 1..Len(DocsAfter(documents, del.index_cursor)) :
          del' = Accumulated(del, k)
    /\ UNCHANGED <<latest_ts, documents, index_entries, globals, bounds, checkpoint,
                   chan, adv, deletes_enabled, restarts, readers>>

NextAccumulate ==
    \/ WriteIndexDocument
    \/ AccumulateIndexes

SpecAccumulate == Init /\ [][NextAccumulate]_vars

\* A committed transaction that writes the metadata documents of both
\* indexes at one timestamp.
WriteIndexDocuments ==
    /\ latest_ts < MaxTs
    /\ \E st \in [IndexIdSet -> IndexDocStates] :
          documents' = documents \o
              [k \in 1..Len(IndexIds) |->
                  Rev(latest_ts + 1, IndexIds[k], IndexTable, IndexDoc(st[IndexIds[k]]))]
    /\ latest_ts' = latest_ts + 1
    /\ UNCHANGED <<index_entries, globals, bounds, checkpoint, chan, adv, del,
                   deletes_enabled, restarts, readers>>

\* The index log with transactions of one and of several index documents.
NextAccumulateShared ==
    \/ WriteIndexDocument
    \/ WriteIndexDocuments
    \/ AccumulateIndexes

SpecAccumulateShared == Init /\ [][NextAccumulateShared]_vars

\* ------------------------------------- the scenario of the reference test
\* test_expired_index_entries: the documents and the index rows it writes.
FixtureDoc(id, ts, val) ==
    Rev(ts, id, UserTable, IF val = None THEN Tombstone ELSE UserDoc(val[1]))

by_id(id, ts, deleted) == Row("by_id", [fields |-> <<>>, id |-> id], ts, deleted)
by_val(id, ts, val, deleted) == Row("by_val", [fields |-> <<val>>, id |-> id], ts, deleted)

FixtureDocuments ==
    <<FixtureDoc("id1", 1, Some(5)),
      FixtureDoc("id2", 2, Some(5)),
      FixtureDoc("id1", 3, Some(6)),
      FixtureDoc("id2", 4, None),
      FixtureDoc("id3", 5, Some(5)),
      FixtureDoc("id4", 6, Some(5)),
      FixtureDoc("id5", 7, Some(5)),
      FixtureDoc("id4", 9, None),
      FixtureDoc("id5", 10, Some(6)),
      FixtureDoc("id5", 11, Some(5))>>

FixtureIndexes ==
    {by_id("id1", 1, FALSE), by_val("id1", 1, 5, FALSE),
     by_id("id2", 2, FALSE), by_val("id2", 2, 5, FALSE),
     by_id("id1", 3, FALSE), by_val("id1", 3, 5, TRUE), by_val("id1", 3, 6, FALSE),
     by_id("id2", 4, TRUE), by_val("id2", 4, 5, TRUE),
     by_id("id3", 5, FALSE), by_val("id3", 5, 5, FALSE),
     by_id("id4", 6, FALSE), by_val("id4", 6, 5, FALSE),
     by_id("id5", 7, FALSE), by_val("id5", 7, 5, FALSE),
     by_id("id4", 9, TRUE), by_val("id4", 9, 5, TRUE),
     by_id("id5", 10, FALSE), by_val("id5", 10, 5, TRUE), by_val("id5", 10, 6, FALSE),
     by_id("id5", 11, FALSE), by_val("id5", 11, 6, TRUE), by_val("id5", 11, 5, FALSE)}

\* The timestamp after the last write of the scenario, and of one more write.
FixtureEnd == 12

\* The timestamp the scenario leaves unused.
FixtureGap == 8

\* What may be written at the unused timestamp: nothing, id2 created again
\* after its deletion (the previous revision of the new one is a tombstone),
\* or id5 written again with the value it has (the same key under both
\* indexes).
FixtureExtras == {"none", "again", "touch"}

\* The scenario as the test writes it, possibly with a write at the unused
\* timestamp, and possibly followed by a transaction that creates and deletes
\* id6 (a tombstone without a previous revision and without index rows).
FixtureLog(extra, gone) ==
    SelectSeq(FixtureDocuments, LAMBDA r : r.ts < FixtureGap)
    \o (IF extra = "again" THEN <<FixtureDoc("id2", FixtureGap, Some(6))>>
        ELSE IF extra = "touch" THEN <<FixtureDoc("id5", FixtureGap, Some(5))>>
        ELSE <<>>)
    \o SelectSeq(FixtureDocuments, LAMBDA r : r.ts > FixtureGap)
    \o (IF gone THEN <<FixtureDoc("id6", FixtureEnd, None)>> ELSE <<>>)

FixtureRows(extra) ==
    FixtureIndexes
    \cup IF extra = "again"
         THEN {by_id("id2", FixtureGap, FALSE), by_val("id2", FixtureGap, 6, FALSE)}
         ELSE IF extra = "touch"
         THEN {by_id("id5", FixtureGap, FALSE), by_val("id5", FixtureGap, 5, FALSE)}
         ELSE {}

\* One of the scenarios; the arguments of expired_index_entries are any
\* range cursor..min_snapshot_ts and any set of the two indexes.
InitFixture ==
    /\ \E extra \in FixtureExtras, gone \in BOOLEAN :
          /\ documents = FixtureLog(extra, gone)
          /\ index_entries = FixtureRows(extra)
          /\ latest_ts = IF gone THEN FixtureEnd ELSE FixtureEnd - 1
    /\ globals = [min |-> None, doc_min |-> None, confirmed_deleted |-> None]
    /\ bounds = NewBounds(globals)
    /\ checkpoint = None
    /\ chan = [rt \in RetentionTypes |-> <<>>]
    /\ adv = AdvancerStart
    /\ \E min_snapshot_ts \in TimestampMIN..(FixtureEnd + 1) :
       \E cursor \in TimestampMIN..min_snapshot_ts :
       \E all_indexes \in SUBSET IndexIdSet :
          del = [DeleterStart(<<>>, TimestampMIN) EXCEPT
                    !.cursor = cursor,
                    !.min_snapshot_ts = min_snapshot_ts,
                    !.all_indexes = all_indexes]
    /\ deletes_enabled = TRUE
    /\ restarts = 0
    /\ call = NoCall
    /\ follower = FollowerStart(globals)

\* The test's call of expired_index_entries, collected, with what the stream
\* reported meanwhile.
CollectExpired ==
    /\ call.op = "none"
    /\ call' = Call("expired_index_entries", del.min_snapshot_ts, 0, FALSE,
                    expired_index_entries(documents, del.cursor,
                                          del.min_snapshot_ts, del.all_indexes))
                @@ [reported |-> reported_by_expired_index_entries(
                                     documents, del.cursor, del.min_snapshot_ts)]
    /\ UNCHANGED <<latest_ts, documents, index_entries, globals, bounds, checkpoint,
                   chan, adv, del, deletes_enabled, restarts, follower>>

\* The test's call of Persistence::delete_index_entries on the collected
\* entries: the rows that exist are deleted and counted.
DeleteExpired ==
    /\ call.op = "expired_index_entries"
    /\ LET to_delete == index_entries_to_delete(index_entries, call.result)
       IN  /\ index_entries' = index_entries \ to_delete
           /\ call' = Call("delete_index_entries", call.ts, 0, FALSE,
                           Cardinality(to_delete))
    /\ UNCHANGED <<latest_ts, documents, globals, bounds, checkpoint,
                   chan, adv, del, deletes_enabled, restarts, follower>>

NextFixture ==
    \/ CollectExpired
    \/ DeleteExpired

SpecFixture == InitFixture /\ [][NextFixture]_vars

\* ------------------------------------- the deleter on the reference scenario
\* The rows left when the passes for the boundary `done` have drained: the
\* scenario's rows without the expired entries below it.
RowsAfter(rows, docs, done, all_indexes) ==
    rows \ index_entries_to_delete(
                rows, expired_index_entries(docs, TimestampMIN, done, all_indexes))

\* A leader on one of the scenarios whose deleter has drained the boundary
\* `done` (Timestamp::MIN: no pass yet) and has just received the next one,
\* any later timestamp the advancer can have published for the scenario's
\* latest_ts, with any set of the two indexes accumulated.
InitPasses ==
    /\ \E extra \in FixtureExtras, gone \in BOOLEAN :
          /\ documents = FixtureLog(extra, gone)
          /\ latest_ts = IF gone THEN FixtureEnd ELSE FixtureEnd - 1
          /\ \E min_snapshot_ts \in (TimestampMIN + 1)..(latest_ts - INDEX_RETENTION_DELAY) :
             \E done \in TimestampMIN..(min_snapshot_ts - 1) :
             \E all_indexes \in SUBSET IndexIdSet :
                /\ index_entries = RowsAfter(FixtureRows(extra), documents, done, all_indexes)
                /\ globals = [min |-> Some(min_snapshot_ts), doc_min |-> None,
                              confirmed_deleted |->
                                  IF done = TimestampMIN THEN None
                                  ELSE Some(DrainedCursor(done))]
                /\ del = [DeleterStart(<<>>, TimestampMIN) EXCEPT
                             !.pc = "accumulate_before",
                             !.min_snapshot_ts = min_snapshot_ts,
                             !.is_working = TRUE,
                             !.all_indexes = all_indexes]
    /\ bounds = NewBounds(globals)
    /\ checkpoint = globals.confirmed_deleted
    /\ chan = [rt \in RetentionTypes |-> <<>>]
    /\ adv = AdvancerStart
    /\ deletes_enabled = TRUE
    /\ restarts = 0
    /\ call = NoCall
    /\ follower = FollowerStart(globals)

\* The passes of the deleter, the advancer publishing nothing more.
NextPasses ==
    \/ DelAccumulateBefore
    \/ DelShard
    \/ DelAccumulateAfter
    \/ DelCheckpointPersist
    \/ DelAdvanceCheckpoint

SpecPasses == InitPasses /\ [][NextPasses]_vars

\* ------------------------------------- the deleter behind a newer index bound
\* A leader on one of the scenarios whose deleter has drained the boundary
\* `done` and is working on a boundary it received earlier, while the
\* advancer has since published the bound of the scenario's latest_ts, which
\* waits in the channel.
InitProgress ==
    /\ \E extra \in FixtureExtras :
          /\ documents = FixtureLog(extra, FALSE)
          /\ latest_ts = FixtureEnd - 1
          /\ \E min_snapshot_ts \in (TimestampMIN + 1)..(latest_ts - INDEX_RETENTION_DELAY - 1) :
             \E done \in TimestampMIN..(min_snapshot_ts - 1) :
             \E all_indexes \in SUBSET IndexIdSet :
                /\ index_entries = RowsAfter(FixtureRows(extra), documents, done, all_indexes)
                /\ globals = [min |-> Some(latest_ts - INDEX_RETENTION_DELAY),
                              doc_min |-> None,
                              confirmed_deleted |->
                                  IF done = TimestampMIN THEN None
                                  ELSE Some(DrainedCursor(done))]
                /\ del = [DeleterStart(<<>>, TimestampMIN) EXCEPT
                             !.pc = "accumulate_before",
                             !.min_snapshot_ts = min_snapshot_ts,
                             !.is_working = TRUE,
                             !.all_indexes = all_indexes]
    /\ bounds = NewBounds(globals)
    /\ checkpoint = globals.confirmed_deleted
    /\ chan = [rt \in RetentionTypes |->
                  IF rt = "Index" THEN <<latest_ts - INDEX_RETENTION_DELAY>> ELSE <<>>]
    /\ adv = AdvancerStart
    /\ deletes_enabled = TRUE
    /\ restarts = 0
    /\ call = NoCall
    /\ follower = FollowerStart(globals)

\* The deleter alone: its passes and its receive, no failing operation.
NextProgress ==
    \/ DelRecv
    \/ DelAccumulateBefore
    \/ DelShard
    \/ DelAccumulateAfter
    \/ DelCheckpointPersist
    \/ DelAdvanceCheckpoint

\* The deleter waits only in recv on an empty channel.
DeleterWaits == del.pc = "recv" /\ chan["Index"] = <<>>

\* The deleter task is scheduled fairly: it receives what the channel holds,
\* and it takes steps again and again unless it waits again and again (weak
\* fairness of the task, whose steps are enabled exactly when it does not
\* wait).
SpecProgress ==
    /\ InitProgress
    /\ [][NextProgress]_vars
    /\ WF_vars(DelRecv)
    /\ \/ []<>DeleterWaits
       \/ []<>(<<NextProgress>>_vars)
\* ------------------------------------------- the validators of the leader
\* A variant of validate_document_snapshot that reads the index bound.
validate_document_snapshot_IndexBound(b, ts) ==
    IF ts < b.min_snapshot_ts THEN "out_of_retention" ELSE "Ok"

\* RetentionValidator for LeaderRetentionManager: each method reads its
\* bound under the lock and compares; bail! and ensure! return an Err.
validate_snapshot(b, ts) ==
    IF ts < b.min_snapshot_ts THEN "out_of_retention" ELSE "Ok"
validate_document_snapshot(b, ts) ==
    IF ts < b.min_document_snapshot_ts THEN "out_of_retention" ELSE "Ok"
optimistic_validate_snapshot(b, ts) ==
    IF ts >= b.min_snapshot_ts THEN "Ok" ELSE "bounds check failed"

ValidatorOps ==
    {"validate_snapshot", "validate_document_snapshot", "optimistic_validate_snapshot"}

ValidateSnapshot ==
    /\ \E ts \in TimestampMIN..MaxTs :
          call' = Call("validate_snapshot", ts, 0, FALSE, validate_snapshot(bounds, ts))
    /\ UNCHANGED <<latest_ts, documents, index_entries, globals, bounds, checkpoint,
                   chan, adv, del, deletes_enabled, restarts, follower>>

ValidateDocumentSnapshot ==
    /\ \E ts \in TimestampMIN..MaxTs :
          call' = Call("validate_document_snapshot", ts, 0, FALSE,
                       validate_document_snapshot(bounds, ts))
    /\ UNCHANGED <<latest_ts, documents, index_entries, globals, bounds, checkpoint,
                   chan, adv, del, deletes_enabled, restarts, follower>>

OptimisticValidateSnapshot ==
    /\ \E ts \in TimestampMIN..MaxTs :
          call' = Call("optimistic_validate_snapshot", ts, 0, FALSE,
                       optimistic_validate_snapshot(bounds, ts))
    /\ UNCHANGED <<latest_ts, documents, index_entries, globals, bounds, checkpoint,
                   chan, adv, del, deletes_enabled, restarts, follower>>

\* The leader with no write to the modelled documents, and callers of its
\* validators.
NextValidators ==
    \/ CommitOther
    \/ Restart
    \/ AdvWait
    \/ AdvPersist
    \/ AdvMemory
    \/ AdvGetCheckpoint
    \/ AdvSend
    \/ DelRecv
    \/ DelAccumulateBefore
    \/ DelAccumulateAfter
    \/ DelCheckpointPersist
    \/ DelAdvanceCheckpoint
    \/ DelError
    \/ ValidateSnapshot
    \/ ValidateDocumentSnapshot
    \/ OptimisticValidateSnapshot

SpecValidators == Init /\ [][NextValidators]_vars

\* -------------------------------------------------- fail_if_falling_behind
\* Time is counted in seconds, as the timestamps are.
secs_since_f64(now, ts) == now - ts
min_failure_duration == INDEX_RETENTION_DELAY * RETENTION_FAIL_START_MULTIPLIER
max_failure_duration == INDEX_RETENTION_DELAY * RETENTION_FAIL_ALL_MULTIPLIER

\* The ages the callers are given: up to one second past max_failure_duration.
Ages == 0..(max_failure_duration + 1)
Dice == 0..(DieSteps - 1)

\* A variant with half the failure percentage.
is_failure_HalfPercentage(age, die) ==
    IF age < min_failure_duration THEN FALSE
    ELSE 2 * die * max_failure_duration < age * DieSteps

\* A variant whose failure percentage starts at 0 at min_failure_duration:
\* (age - min_failure_duration) / (max_failure_duration - min_failure_duration).
is_failure_FromStart(age, die) ==
    IF age < min_failure_duration THEN FALSE
    ELSE die * (max_failure_duration - min_failure_duration)
            < (age - min_failure_duration) * DieSteps

\* is_failure: failure_die < failure_percentage = age / max_failure_duration,
\* that is die / DieSteps < age / max_failure_duration.
is_failure(age, die) ==
    IF age < min_failure_duration THEN FALSE
    ELSE die * max_failure_duration < age * DieSteps

\* A variant that does not read RETENTION_FAIL_ENABLED.
fail_if_falling_behind_KnobIgnored(enabled, cp, now, die) ==
    IF cp = None THEN "Ok"
    ELSE LET age == secs_since_f64(now, cp[1])
         IN  IF age < min_failure_duration THEN "Ok"
             ELSE IF is_failure(age, die) THEN "TooManyWritesInTimePeriod"
             ELSE "Ok"

\* LeaderRetentionManager::fail_if_falling_behind with the knob
\* RETENTION_FAIL_ENABLED, the Checkpoint, the system time and the sample.
fail_if_falling_behind(enabled, cp, now, die) ==
    IF ~enabled THEN "Ok"
    ELSE IF cp = None THEN "Ok"
    ELSE LET age == secs_since_f64(now, cp[1])
         IN  IF age < min_failure_duration THEN "Ok"
             ELSE IF is_failure(age, die) THEN "TooManyWritesInTimePeriod"
             ELSE "Ok"

\* A call on the leader, at a system time at or after the Checkpoint.
FailIfFallingBehind ==
    /\ \E enabled \in BOOLEAN, age \in Ages, die \in Dice :
          LET now == UnwrapOrMin(checkpoint) + age
          IN  call' = Call("fail_if_falling_behind", now, die, enabled,
                           fail_if_falling_behind(enabled, checkpoint, now, die))
    /\ UNCHANGED <<latest_ts, documents, index_entries, globals, bounds, checkpoint,
                   chan, adv, del, deletes_enabled, restarts, follower>>

\* The leader with no write to the modelled documents, and callers of
\* fail_if_falling_behind.
NextFallingBehind ==
    \/ CommitOther
    \/ Restart
    \/ AdvWait
    \/ AdvPersist
    \/ AdvMemory
    \/ AdvGetCheckpoint
    \/ AdvSend
    \/ DelRecv
    \/ DelAccumulateBefore
    \/ DelAccumulateAfter
    \/ DelCheckpointPersist
    \/ DelAdvanceCheckpoint
    \/ DelError
    \/ FailIfFallingBehind

SpecFallingBehind == Init /\ [][NextFallingBehind]_vars

\* ------------------------------------------------------------ the follower
\* FollowerRetentionManager::min_snapshot_ts and min_document_snapshot_ts up
\* to their await: the cell of the type is read.  Several callers run these
\* methods at a time; each holds the value it read until it takes the lock.
FollowerRead ==
    /\ Cardinality(follower.reads) < MaxCalls
    /\ \E rt \in RetentionTypes :
          follower' = [follower EXCEPT !.reads = @ \cup
                          {[rt |-> rt,
                            latest |-> latest_retention_min_snapshot_ts(globals, rt)]}]
    /\ UNCHANGED <<latest_ts, documents, index_entries, globals, bounds, checkpoint,
                   chan, adv, del, deletes_enabled, restarts, call>>

\* The bounds of the follower after a call has advanced them by what it read.
FollowerAdvanced(b, r) ==
    IF r.rt = "Document"
    THEN advance_min_document_snapshot_ts(b, r.latest)
    ELSE advance_min_snapshot_ts(b, r.latest)

\* The rest of the method: under the lock the cached bound is advanced by
\* the value read, which is returned.
FollowerAdvance ==
    /\ \E r \in follower.reads :
          follower' = [bounds |-> FollowerAdvanced(follower.bounds, r),
                       reads |-> follower.reads \ {r}]
    /\ UNCHANGED <<latest_ts, documents, index_entries, globals, bounds, checkpoint,
                   chan, adv, del, deletes_enabled, restarts, call>>

\* FollowerRetentionManager::optimistic_validate_snapshot.
follower_optimistic_validate_snapshot(b, ts) ==
    IF ts >= b.min_snapshot_ts THEN "Ok" ELSE "bounds check failed"

FollowerOptimisticValidateSnapshot ==
    /\ \E ts \in TimestampMIN..MaxTs :
          call' = Call("follower_optimistic_validate_snapshot", ts, 0, FALSE,
                       follower_optimistic_validate_snapshot(follower.bounds, ts))
    /\ UNCHANGED <<latest_ts, documents, index_entries, globals, bounds, checkpoint,
                   chan, adv, del, deletes_enabled, restarts, follower>>

\* The leader with no write to the modelled documents, and a follower on the
\* same persistence.
NextFollower ==
    \/ CommitOther
    \/ AdvWait
    \/ AdvPersist
    \/ AdvMemory
    \/ AdvGetCheckpoint
    \/ AdvSend
    \/ DelRecv
    \/ DelAccumulateBefore
    \/ DelAccumulateAfter
    \/ DelCheckpointPersist
    \/ DelAdvanceCheckpoint
    \/ FollowerRead
    \/ FollowerAdvance
    \/ FollowerOptimisticValidateSnapshot

SpecFollower == Init /\ [][NextFollower]_vars

\* ------------------------------------------------------------------ claims
\* The deleter is inside or just after a call of delete() that was not
\* short-circuited, with the arguments it was called with still in place.
DeleteReturned == del.pc = "accumulate_after"

\* C1: retention never removes data visible to a permitted read.  In every
\* step that removes index rows, for every index of all_indexes and every
\* snapshot s at or above the boundary handed to delete(), the index scan at
\* s returns the same before and after the step.
C1_VisibleReadsKept ==
    [][index_entries' \subseteq index_entries =>
          \A i \in del.all_indexes : \A s \in del.min_snapshot_ts..(MaxTs + 1) :
              IndexScan(index_entries', i, s) = IndexScan(index_entries, i, s)]_vars

\* delete() has returned after deleting rows, and a scan at the boundary
\* still returns entries.
C1_Witness ==
    /\ DeleteReturned
    /\ del.total_deleted_rows > 0
    /\ \E i \in del.all_indexes :
          IndexScan(index_entries, i, del.min_snapshot_ts) # {}

\* C2: at every state and for both retention types the persisted bound is at
\* or above the leader's in-memory bound.
C2_PersistedBoundAboveMemory ==
    \A rt \in RetentionTypes :
        BoundOf(bounds, rt) <= latest_retention_min_snapshot_ts(globals, rt)

\* The document bound has been written and is not yet in memory, the index
\* bound has advanced in memory.
C2_Witness ==
    /\ adv.pc = "memory"
    /\ adv.rt = "Document"
    /\ bounds.min_snapshot_ts > TimestampMIN
    /\ latest_retention_min_snapshot_ts(globals, "Document")
           > bounds.min_document_snapshot_ts

\* C3: at all times the in-memory min_document_snapshot_ts is at or below
\* the timestamp held in the Checkpoint, an empty Checkpoint counting as
\* Timestamp::MIN; also right after the leader is constructed from the
\* persisted cells.
C3_DocumentBoundBelowCheckpoint ==
    bounds.min_document_snapshot_ts <= UnwrapOrMin(checkpoint)

\* C4: at every state the confirmed-deleted timestamp, persisted and in
\* memory, is at or below the in-memory min_snapshot_ts, and a pass that has
\* reached its checkpoint holds a cursor strictly below the boundary it was
\* given, which is itself at or below the in-memory min_snapshot_ts.
C4_CheckpointBelowIndexBound ==
    /\ UnwrapOrMin(globals.confirmed_deleted) <= bounds.min_snapshot_ts
    /\ UnwrapOrMin(checkpoint) <= bounds.min_snapshot_ts
    /\ del.pc \in {"accumulate_after", "checkpoint", "advance_checkpoint"} =>
          /\ del.new_cursor < del.min_snapshot_ts
          /\ del.min_snapshot_ts <= bounds.min_snapshot_ts

\* A drained pass has written its cursor, the predecessor of the boundary,
\* to the cell and to the Checkpoint.
C4_Witness ==
    /\ globals.confirmed_deleted # None
    /\ checkpoint = globals.confirmed_deleted
    /\ UnwrapOrMin(checkpoint) > TimestampMIN
    /\ UnwrapOrMin(checkpoint) + 1 = bounds.min_snapshot_ts

\* C5: the confirmed-deleted timestamp never decreases.  No step lowers the
\* cell, and no step of a running leader lowers its Checkpoint.
C5_ConfirmedDeletedNeverDecreases ==
    [][/\ UnwrapOrMin(globals'.confirmed_deleted) >= UnwrapOrMin(globals.confirmed_deleted)
       /\ restarts' = restarts =>
             UnwrapOrMin(checkpoint') >= UnwrapOrMin(checkpoint)]_vars

\* A pass is about to raise a Checkpoint that an earlier pass has set.
C5_Witness ==
    /\ del.pc = "advance_checkpoint"
    /\ UnwrapOrMin(checkpoint) > TimestampMIN
    /\ del.new_cursor > UnwrapOrMin(checkpoint)

\* C6: both in-memory bounds are non-decreasing in every step, the
\* construction of a new leader from the cells included.
C6_BoundsNeverDecrease ==
    [][/\ bounds'.min_snapshot_ts >= bounds.min_snapshot_ts
       /\ bounds'.min_document_snapshot_ts >= bounds.min_document_snapshot_ts]_vars

\* Both bounds have advanced, the index bound more than once.
C6_Witness ==
    /\ bounds.min_snapshot_ts > TimestampMIN + 1
    /\ bounds.min_document_snapshot_ts > TimestampMIN
    /\ adv.pc = "wait"

\* The log positions of the revisions that overwrite a live revision of
\* their document without changing its key under index_id.
SameKeyRevisions(docs, index_id) ==
    {n \in 1..Len(docs) :
        /\ docs[n].table = UserTable
        /\ docs[n].doc # Tombstone
        /\ PrevPos(docs, n) # 0
        /\ docs[PrevPos(docs, n)].doc # Tombstone
        /\ IndexKey(index_id, docs[n].id, docs[PrevPos(docs, n)].doc)
               = IndexKey(index_id, docs[n].id, docs[n].doc)}

\* C7: for two consecutive revisions (prev_ts, ts) of a document with the
\* same key under an index, the expired stream holds the entry at prev_ts
\* and no entry at ts; and while the revision at ts is the latest of its
\* document, its row under every registered index is in persistence.
C7_SameKeyEntryKept ==
    \A i \in IndexIdSet : \A n \in SameKeyRevisions(documents, i) :
        LET prev == documents[PrevPos(documents, n)]
            rev == documents[n]
            key == IndexKey(i, rev.id, rev.doc)
        IN  /\ ExpiredOfIndex(prev, rev, i) = <<IndexEntry(i, key, prev.ts, FALSE)>>
            /\ (i \in Registry(documents) /\ LatestPos(documents, rev.id) = n) =>
                  Row(i, key, rev.ts, FALSE) \in index_entries

\* delete() has returned after reclaiming the entry at prev_ts of a same-key
\* overwrite below the boundary, and the entry at ts is in persistence.
C7_Witness ==
    /\ DeleteReturned
    /\ \E i \in del.all_indexes : \E n \in SameKeyRevisions(documents, i) :
          LET prev == documents[PrevPos(documents, n)]
              rev == documents[n]
              key == IndexKey(i, rev.id, rev.doc)
          IN  /\ rev.ts < del.min_snapshot_ts
              /\ Row(i, key, prev.ts, FALSE) \notin index_entries
              /\ Row(i, key, rev.ts, FALSE) \in index_entries

\* all_indexes after the accumulate_indexes that the deleter is about to run
\* reads its whole stream.
AccumulatedIndexes ==
    AccumulateAll(DocsAfter(documents, del.index_cursor), del.all_indexes)

\* A step of the deleter of the running leader.
DeleterStep == del' # del /\ restarts' = restarts

\* C8: a pass whose second accumulation changes the index count does not go
\* on to the checkpoint and changes neither the cell nor the Checkpoint; with
\* the count unchanged the pass goes on to the checkpoint unless the
\* accumulation fails.  The cell is only written by a pass at its checkpoint
\* with the count unchanged, with the new cursor and before the Checkpoint;
\* the Checkpoint of a running leader is only advanced after that write,
\* with the same cursor.
C8_CheckpointSkippedOnNewIndex ==
    [][/\ (del.pc = "accumulate_after" /\ DeleterStep
           /\ Cardinality(del'.all_indexes) # del.index_count_before) =>
             /\ del'.pc # "checkpoint"
             /\ globals' = globals
             /\ checkpoint' = checkpoint
       /\ (del.pc = "accumulate_after" /\ DeleterStep
           /\ Cardinality(del'.all_indexes) = del.index_count_before) =>
             del'.pc \in {"checkpoint", "accumulate_before"}
       /\ globals'.confirmed_deleted # globals.confirmed_deleted =>
             /\ del.pc = "checkpoint"
             /\ Cardinality(del.all_indexes) = del.index_count_before
             /\ globals'.confirmed_deleted = Some(del.new_cursor)
             /\ checkpoint' = checkpoint
             /\ del'.pc = "advance_checkpoint"
       /\ (checkpoint' # checkpoint /\ restarts' = restarts) =>
             /\ del.pc = "advance_checkpoint"
             /\ globals.confirmed_deleted = Some(del.new_cursor)
             /\ checkpoint' = advance_checkpoint(checkpoint, del.new_cursor)]_vars

\* delete() has returned a cursor above the confirmed-deleted cell, and the
\* second accumulation is about to find an index added during the pass.
C8_Witness ==
    /\ DeleteReturned
    /\ del.new_cursor > UnwrapOrMin(globals.confirmed_deleted)
    /\ Cardinality(AccumulatedIndexes) # del.index_count_before

\* The expired entries of the call of delete() that has returned.
ExpiredOfCall ==
    expired_index_entries(documents, del.cursor, del.min_snapshot_ts, del.all_indexes)

\* C9, as the spec states it: after a call of delete() that drained the
\* stream, persistence holds no index row with a timestamp in
\* [cursor, boundary).
C9_NoRowInRange ==
    (DeleteReturned /\ del.returned = "drained") =>
        \A r \in index_entries : ~(del.cursor <= r.ts /\ r.ts < del.min_snapshot_ts)

\* C9, amended: after a call of delete() that drained the stream, persistence
\* holds none of the expired entries of [cursor, boundary) under the indexes
\* of all_indexes.
C9_NoExpiredEntryLeft ==
    (DeleteReturned /\ del.returned = "drained") =>
        \A k \in 1..Len(ExpiredOfCall) : \A r \in index_entries :
            ~(/\ r.index_id = ExpiredOfCall[k].index_id
              /\ r.key = ExpiredOfCall[k].key
              /\ r.ts = ExpiredOfCall[k].ts)

\* A drained call has deleted rows given to both shards, and a row with a
\* timestamp in [cursor, boundary) is left.
C9_Witness ==
    /\ DeleteReturned
    /\ del.returned = "drained"
    /\ del.total_deleted_rows > 1
    /\ \A i \in Shards : partition_chunk(ExpiredOfCall, i) # <<>>
    /\ \E r \in index_entries : del.cursor <= r.ts /\ r.ts < del.min_snapshot_ts

\* C10, as the spec states it: a second call of delete() with the cursor,
\* boundary and index set of a call that has returned deletes no row and
\* leaves persistence as the first call left it.
C10_SecondRunDeletesNothing ==
    DeleteReturned =>
        /\ DeleteRun(index_entries, del).total_deleted_rows = 0
        /\ DeleteRun(index_entries, del).rows = index_entries

\* C10, amended: the same, for a first call that did not return early.
C10_SecondRunAfterDrain ==
    (DeleteReturned /\ del.returned # "early") =>
        /\ DeleteRun(index_entries, del).total_deleted_rows = 0
        /\ DeleteRun(index_entries, del).rows = index_entries

\* A drained call has deleted rows, and a second call reads the same expired
\* entries again.
C10_Witness ==
    /\ DeleteReturned
    /\ del.returned = "drained"
    /\ del.total_deleted_rows > 0
    /\ DeleteRun(index_entries, del).total_expired_entries = del.total_expired_entries
    /\ DeleteRun(index_entries, del).returned = "drained"

\* C11: with RETENTION_DELETES_ENABLED false or a boundary of Timestamp::MIN,
\* a call of delete() with any cursor returns that cursor and 0, has read no
\* expired entry and leaves the index rows as they are; the deleter is in a
\* group of shards only with deletes enabled and a boundary above
\* Timestamp::MIN, and a short-circuited call has returned its cursor and
\* counted nothing.
C11_ShortCircuitDoesNothing ==
    /\ \A cursor \in TimestampMIN..MaxTs : \A min_snapshot_ts \in TimestampMIN..MaxTs :
          (~deletes_enabled \/ min_snapshot_ts = TimestampMIN) =>
              DeleteRun(index_entries,
                        [del EXCEPT !.cursor = cursor,
                                    !.min_snapshot_ts = min_snapshot_ts])
                  = [rows |-> index_entries, new_cursor |-> cursor,
                     total_expired_entries |-> 0, total_deleted_rows |-> 0,
                     returned |-> "short"]
    /\ del.pc = "shards" => deletes_enabled /\ del.min_snapshot_ts # TimestampMIN
    /\ (DeleteReturned /\ ~deletes_enabled) =>
          /\ del.returned = "short"
          /\ del.new_cursor = del.cursor
          /\ del.total_expired_entries = 0
          /\ del.total_deleted_rows = 0

\* delete() was called with deletes disabled and a boundary below which
\* expired entries are in persistence, and has returned.
C11_Witness ==
    /\ DeleteReturned
    /\ ~deletes_enabled
    /\ del.returned = "short"
    /\ index_entries_to_delete(index_entries, ExpiredOfCall) # {}

\* C17: in every interleaving of the advancer's try_recv and send with the
\* deleter's recv, the send never waits (the queue is below its capacity
\* whenever the advancer is at its send), no channel ever holds more than one
\* value, a send leaves exactly the bound just published in the channel, and
\* the deleter never receives a bound older than the one it received before.
C17_SendNeverBlocks ==
    /\ [](\A rt \in RetentionTypes : Len(chan[rt]) <= ChannelCapacity)
    /\ [](adv.pc = "send" => CanSend(chan[adv.rt]))
    /\ [][(adv.pc = "send" /\ adv'.pc # "send" /\ restarts' = restarts) =>
              chan'[adv.rt] = <<adv.candidate>>]_vars
    /\ [][(del.pc = "recv" /\ del'.pc = "accumulate_before") =>
              /\ chan["Index"] = <<del'.min_snapshot_ts>>
              /\ del'.min_snapshot_ts >= del.min_snapshot_ts]_vars

\* The advancer is at its send of a new index bound after try_recv dropped an
\* older bound the deleter, busy with a pass, had not received.
C17_Witness ==
    /\ adv.pc = "send" /\ adv.rt = "Index"
    /\ chan["Index"] = <<>>
    /\ del.pc # "recv"
    /\ del.min_snapshot_ts # TimestampMIN
    /\ adv.candidate >= del.min_snapshot_ts + 2
\* C19: all_indexes never shrinks: an index id that is in the map stays in it
\* over every accumulation, whatever the later revisions of its index
\* document are (a tombstone, Backfilling, not a database index).
C19_AllIndexesNeverShrinks ==
    [][del.all_indexes \subseteq del'.all_indexes]_vars

\* The latest revision of an index document that accumulate_indexes has read.
LatestRead(i) ==
    LET read == {n \in RevsOf(documents, i) : documents[n].ts <= del.index_cursor}
    IN  IF read = {} THEN Tombstone ELSE documents[SetMax(read)].doc

\* Both indexes are in the map after accumulate_indexes has read a tombstone
\* of one and a Backfilling or non-database revision of the other.
C19_Witness ==
    /\ del.all_indexes = IndexIdSet
    /\ del.index_cursor > TimestampMIN
    /\ \E i \in IndexIdSet : LatestRead(i) = Tombstone
    /\ \E i \in IndexIdSet : LatestRead(i) \in {IndexDoc("Backfilling"), IndexDoc("Search")}
\* The entries the claim lists for the range and the indexes of the call: for
\* every revision of the range with a live previous revision and every index
\* of all_indexes on its table, the previous key at the previous timestamp,
\* and the previous key at the revision's timestamp as a tombstone when the
\* revision is a deletion or has another key.
ClaimedEntries ==
    UNION {
        LET prev == documents[PrevPos(documents, n)]
            rev == documents[n]
            prev_key == IndexKey(i, prev.id, prev.doc)
        IN  {IndexEntry(i, prev_key, prev.ts, FALSE)}
            \cup IF rev.doc = Tombstone \/ IndexKey(i, rev.id, rev.doc) # prev_key
                 THEN {IndexEntry(i, prev_key, rev.ts, TRUE)}
                 ELSE {} :
        <<n, i>> \in {<<m, j>> \in (1..Len(documents)) \X del.all_indexes :
                        /\ del.cursor <= documents[m].ts
                        /\ documents[m].ts < del.min_snapshot_ts
                        /\ PrevPos(documents, m) # 0
                        /\ documents[PrevPos(documents, m)].doc # Tombstone
                        /\ TableOfIndex(j) = documents[m].table}}

\* The call of the reference test: from Timestamp::MIN to 8 with both indexes
\* on the documents the test writes.
ReferenceCall ==
    /\ documents = FixtureDocuments
    /\ del.cursor = TimestampMIN /\ del.min_snapshot_ts = 8
    /\ del.all_indexes = IndexIdSet

\* C20: expired_index_entries emits exactly the claimed entries, each once
\* (so at most two per revision and index); in the reference scenario these
\* are 7 entries, and delete_index_entries finds the 7 of them in persistence.
C20_ExpiredEntriesExact ==
    /\ call.op = "expired_index_entries" =>
          /\ {call.result[k] : k \in 1..Len(call.result)} = ClaimedEntries
          /\ Len(call.result) = Cardinality(ClaimedEntries)
          /\ ReferenceCall => Len(call.result) = 7
    /\ (call.op = "delete_index_entries" /\ ReferenceCall) => call.result = 7

\* The reference call has deleted its 7 entries.
C20_Witness ==
    /\ call.op = "delete_index_entries"
    /\ ReferenceCall
    /\ call.result = 7
    /\ Cardinality(index_entries) = Cardinality(FixtureIndexes) - 7
\* A call of a validator of the leader finishes in this step.
ValidatorStep(op) == call' # call /\ call'.op = op

\* C12: on the leader validate_snapshot(ts) and
\* optimistic_validate_snapshot(ts) return Ok exactly when ts is at or above
\* the in-memory min_snapshot_ts, validate_document_snapshot(ts) exactly when
\* ts is at or above the in-memory min_document_snapshot_ts; a call, accepted
\* or rejected, returns a value and changes no state.
C12_ValidatorsCompareBounds ==
    [][/\ ValidatorStep("validate_snapshot") =>
            (call'.result = "Ok" <=> call'.ts >= bounds.min_snapshot_ts)
       /\ ValidatorStep("optimistic_validate_snapshot") =>
            (call'.result = "Ok" <=> call'.ts >= bounds.min_snapshot_ts)
       /\ ValidatorStep("validate_document_snapshot") =>
            (call'.result = "Ok" <=> call'.ts >= bounds.min_document_snapshot_ts)
       /\ (call' # call /\ call'.op \in ValidatorOps) =>
            UNCHANGED <<latest_ts, documents, index_entries, globals, bounds,
                        checkpoint, chan, adv, del, deletes_enabled, restarts,
                        follower>>]_vars

\* validate_snapshot has rejected a timestamp between the two bounds, which
\* validate_document_snapshot accepts.
C12_Witness ==
    /\ call.op = "validate_snapshot"
    /\ call.result = "out_of_retention"
    /\ call.ts < bounds.min_snapshot_ts
    /\ call.ts >= bounds.min_document_snapshot_ts
    /\ bounds.min_document_snapshot_ts > TimestampMIN
\* A call of fail_if_falling_behind returns in this step; its age when the
\* Checkpoint is set.
FallingBehindStep == call' # call /\ call'.op = "fail_if_falling_behind"
AgeOfCall(c) == secs_since_f64(c.ts, checkpoint[1])
Measured(c) == c.op = "fail_if_falling_behind" /\ c.enabled /\ checkpoint # None

\* C14: fail_if_falling_behind returns Ok, whatever the sample, when
\* RETENTION_FAIL_ENABLED is false, when the Checkpoint is None, and when the
\* age of the Checkpoint is below min_failure.
C14_OkBelowMinFailure ==
    [][FallingBehindStep =>
          /\ ~call'.enabled => call'.result = "Ok"
          /\ checkpoint = None => call'.result = "Ok"
          /\ (checkpoint # None /\ AgeOfCall(call') < min_failure_duration) =>
                call'.result = "Ok"]_vars

\* An enabled call with a Checkpoint one second younger than min_failure and
\* the smallest sample has returned Ok.
C14_Witness ==
    /\ Measured(call)
    /\ AgeOfCall(call) = min_failure_duration - 1
    /\ call.die = 0
    /\ call.result = "Ok"

\* C15: with RETENTION_FAIL_ENABLED and a Checkpoint, every call at an age of
\* max_failure or more fails with TooManyWritesInTimePeriod, whatever the
\* sample.
C15_AllFailFromMaxFailure ==
    [][(FallingBehindStep /\ call'.enabled /\ checkpoint # None
        /\ AgeOfCall(call') >= max_failure_duration) =>
          call'.result = "TooManyWritesInTimePeriod"]_vars

\* A call at the age max_failure with the largest sample has failed.
C15_Witness ==
    /\ Measured(call)
    /\ AgeOfCall(call) = max_failure_duration
    /\ call.die = DieSteps - 1
    /\ call.result = "TooManyWritesInTimePeriod"

\* An enabled call with a Checkpoint at an age in [min_failure, max_failure)
\* fails exactly when its sample is below age / max_failure.
FailsBelowPercentage ==
    (FallingBehindStep /\ call'.enabled /\ checkpoint # None
     /\ AgeOfCall(call') >= min_failure_duration
     /\ AgeOfCall(call') < max_failure_duration) =>
        (call'.result = "TooManyWritesInTimePeriod"
            <=> call'.die * max_failure_duration < AgeOfCall(call') * DieSteps)

\* C16, as the spec states it: between min_failure and max_failure a call
\* fails exactly when its sample is below age / max_failure, and the failure
\* fraction starts at 0% at age = min_failure: no call fails at that age.
C16_RampFromZero ==
    [][/\ FailsBelowPercentage
       /\ (FallingBehindStep /\ call'.enabled /\ checkpoint # None
           /\ AgeOfCall(call') = min_failure_duration) =>
              call'.result = "Ok"]_vars

\* C16, amended: between min_failure and max_failure a call fails exactly
\* when its sample is below age / max_failure; at age = min_failure the
\* failing samples are those below min_failure / max_failure, the ratio of
\* the two multipliers, so the failure fraction jumps there from 0%.
C16_RampFromMinOverMax ==
    [][/\ FailsBelowPercentage
       /\ (FallingBehindStep /\ call'.enabled /\ checkpoint # None
           /\ AgeOfCall(call') = min_failure_duration) =>
              (call'.result = "TooManyWritesInTimePeriod"
                  <=> call'.die * RETENTION_FAIL_ALL_MULTIPLIER
                         < RETENTION_FAIL_START_MULTIPLIER * DieSteps)]_vars

\* A call at the age min_failure has failed.
C16_Witness ==
    /\ Measured(call)
    /\ AgeOfCall(call) = min_failure_duration
    /\ call.result = "TooManyWritesInTimePeriod"
\* C13: a call of min_snapshot_ts() or min_document_snapshot_ts() on the
\* follower reads the cell as it is at that moment and sets the cached bound
\* to the larger of the cache and the value read; whatever the leader does in
\* between, the cached bounds never decrease and never exceed the cells; and
\* optimistic_validate_snapshot compares with the cached bound only, reading
\* and changing nothing.
C13_FollowerCacheMonotone ==
    /\ [](\A rt \in RetentionTypes :
             BoundOf(follower.bounds, rt) <= latest_retention_min_snapshot_ts(globals, rt))
    /\ [][\A rt \in RetentionTypes :
             BoundOf(follower'.bounds, rt) >= BoundOf(follower.bounds, rt)]_vars
    /\ [][\A r \in follower'.reads \ follower.reads :
             r.latest = latest_retention_min_snapshot_ts(globals, r.rt)]_vars
    /\ [][\A r \in follower.reads \ follower'.reads :
             /\ BoundOf(follower'.bounds, r.rt)
                   = Max2(BoundOf(follower.bounds, r.rt), r.latest)
             /\ \A rt \in RetentionTypes \ {r.rt} :
                   BoundOf(follower'.bounds, rt) = BoundOf(follower.bounds, rt)]_vars
    /\ [][(call' # call /\ call'.op = "follower_optimistic_validate_snapshot") =>
             /\ call'.result = "Ok" <=> call'.ts >= follower.bounds.min_snapshot_ts
             /\ UNCHANGED <<follower, globals, bounds>>]_vars

\* optimistic_validate_snapshot has accepted a timestamp below the index cell
\* from a cache that is behind it, while a call of min_snapshot_ts() holds a
\* value it read before the cache moved above it.
C13_Witness ==
    /\ call.op = "follower_optimistic_validate_snapshot"
    /\ call.result = "Ok"
    /\ call.ts < latest_retention_min_snapshot_ts(globals, "Index")
    /\ follower.bounds.min_snapshot_ts > TimestampMIN
    /\ \E r \in follower.reads :
          r.rt = "Index" /\ r.latest < follower.bounds.min_snapshot_ts
C21_OldVersionsGone ==
    (call.op = "delete_index_entries" /\ del.cursor = TimestampMIN) =>
        /\ \A i \in del.all_indexes :
           \A s \in TimestampMIN..(del.min_snapshot_ts - 1) :
           \A e \in IndexScan(index_entries, i, s) :
               ~\E n \in RevsOf(documents, e[1].id) :
                    e[2] < documents[n].ts /\ documents[n].ts < del.min_snapshot_ts
        /\ ReferenceCall => IndexScan(index_entries, "by_val", 2) = {}

\* The reference call has deleted its entries; the scan of by_val at 2
\* returned rows before and returns none now.
C21_Witness ==
    /\ call.op = "delete_index_entries"
    /\ ReferenceCall
    /\ IndexScan(FixtureIndexes, "by_val", 2) # {}
    /\ IndexScan(index_entries, "by_val", 2) = {}
\* The log positions of the range of the call.
RangeOfCall ==
    {n \in 1..Len(documents) :
        del.cursor <= documents[n].ts /\ documents[n].ts < del.min_snapshot_ts}

\* The entries of the collected stream.
EntriesOfCall == {call.result[k] : k \in 1..Len(call.result)}

\* An entry of the stream at the timestamp of the revision at position n, of
\* its document.
EntryAt(e, n) == e.key.id = documents[n].id /\ e.ts = documents[n].ts

\* C22: a revision of the range without a previous revision, whether it
\* creates a document or is the tombstone of a document created and deleted
\* in one transaction, contributes no entry for any index: the loop body
\* yields nothing for it, the stream holds no tombstone entry at its
\* timestamp, and an entry of its document at its timestamp is the one a
\* later revision of the range emits for it as its previous revision.
C22_NoEntryWithoutPrevious ==
    call.op = "expired_index_entries" =>
        \A n \in RangeOfCall : PrevPos(documents, n) = 0 =>
            /\ \A all_indexes \in SUBSET IndexIdSet :
                   ExpiredOfRevision(documents, n, all_indexes) = <<>>
            /\ \A e \in EntriesOfCall : EntryAt(e, n) =>
                   /\ ~e.deleted
                   /\ \E m \in RangeOfCall : PrevPos(documents, m) = n

\* The stream of the whole log under both indexes has been collected: the
\* log ends with the tombstone of a document created and deleted in one
\* transaction, and it has creations whose documents are never written again.
C22_Witness ==
    /\ call.op = "expired_index_entries"
    /\ del.cursor = TimestampMIN /\ del.min_snapshot_ts = FixtureEnd + 1
    /\ del.all_indexes = IndexIdSet
    /\ \E n \in RangeOfCall :
          /\ PrevPos(documents, n) = 0 /\ documents[n].doc = Tombstone
          /\ \A e \in EntriesOfCall : e.key.id # documents[n].id
    /\ \E n \in RangeOfCall :
          /\ PrevPos(documents, n) = 0 /\ documents[n].doc # Tombstone
          /\ \A e \in EntriesOfCall : e.key.id # documents[n].id
    /\ call.result # <<>>

\* The revisions of the range whose previous revision is a tombstone.
InconsistentOfCall ==
    {n \in RangeOfCall : PrevPos(documents, n) # 0
                         /\ documents[PrevPos(documents, n)].doc = Tombstone}

\* C23: a revision whose previous revision is a tombstone is reported, once,
\* and nothing else is; the stream holds no entry for it (an entry of its
\* document at its timestamp is the one a later revision emits for it as its
\* previous revision); and the stream goes on: the entries of every other
\* revision of the range with a live previous revision are in it, in the same
\* read chunk and in later ones.
C23_InconsistencySkipped ==
    call.op = "expired_index_entries" =>
        /\ {<<r.id, r.ts>> : r \in {call.reported[k] : k \in 1..Len(call.reported)}}
               = {<<documents[n].id, documents[n].ts>> : n \in InconsistentOfCall}
        /\ Len(call.reported) = Cardinality(InconsistentOfCall)
        /\ \A n \in InconsistentOfCall : \A e \in EntriesOfCall : EntryAt(e, n) =>
               /\ ~e.deleted
               /\ \E m \in RangeOfCall : PrevPos(documents, m) = n
        /\ \A m \in RangeOfCall \ InconsistentOfCall : \A i \in del.all_indexes :
               PrevPos(documents, m) # 0 =>
                   \A k \in 1..Len(ExpiredOfIndex(documents[PrevPos(documents, m)],
                                                  documents[m], i)) :
                       ExpiredOfIndex(documents[PrevPos(documents, m)], documents[m], i)[k]
                           \in EntriesOfCall

\* A stream read from the timestamp of a revision whose previous revision is
\* a tombstone: the revision was reported, and the stream holds the entries
\* of the next revision (same read chunk) and of the last one (a later chunk).
C23_Witness ==
    /\ call.op = "expired_index_entries"
    /\ del.cursor = FixtureGap /\ del.min_snapshot_ts = FixtureEnd
    /\ del.all_indexes = IndexIdSet
    /\ call.reported = <<[id |-> "id2", prev_rev_ts |-> 4, ts |-> FixtureGap]>>
    /\ \A e \in EntriesOfCall : e.key.id # "id2"
    /\ \E e \in EntriesOfCall : e.ts = FixtureGap + 1 /\ e.deleted
    /\ \E e \in EntriesOfCall : e.ts = FixtureEnd - 1 /\ e.deleted
\* An index row that is expired at the boundary of the deleter: the row of an
\* entry that expired_index_entries emits for the range from Timestamp::MIN
\* to the boundary under the indexes of the call.
ExpiredRow(r) ==
    \E e \in {expired_index_entries(documents, TimestampMIN, del.min_snapshot_ts,
                                    del.all_indexes)[k] :
                 k \in 1..Len(expired_index_entries(documents, TimestampMIN,
                                                    del.min_snapshot_ts, del.all_indexes))} :
        e.index_id = r.index_id /\ e.key = r.key /\ e.ts = r.ts

\* C24: whenever delete() has returned a cursor, no row that is expired at
\* the boundary of the call, of an index of the call and with a timestamp at
\* or below the cursor, is left in persistence; and when the cursor has been
\* written to the confirmed-deleted cell, no such row with a timestamp
\* strictly below the cell is left.
C24_CursorFullyReclaimed ==
    /\ DeleteReturned =>
          \A r \in index_entries : r.ts <= del.new_cursor => ~ExpiredRow(r)
    /\ del.pc = "advance_checkpoint" =>
          \A r \in index_entries :
              r.ts < UnwrapOrMin(globals.confirmed_deleted) => ~ExpiredRow(r)
\* The step in which the last shard of a group completes and try_join_all
\* returns its results.
GroupJoined ==
    /\ del.pc = "shards"
    /\ Cardinality(del.pending) = 1
    /\ del'.pc \in {"shards", "accumulate_after"}
    /\ restarts' = restarts

\* The cursor of the group that is joined in this step: the max of the
\* cursors of its shards.
JoinedCursor ==
    SetMax(del.chunk_new_cursors
           \cup {ChunkCursor(del.new_cursor,
                             index_entries_to_delete(
                                 index_entries,
                                 partition_chunk(ExpiredChunks(del)[del.chunk_no], i))) :
                    i \in del.pending})

\* What delete() does after a joined group when it does not return early: the
\* next group, or the return of the drained stream with boundary.pred().
Continues ==
    \/ del'.pc = "shards" /\ del'.chunk_no = del.chunk_no + 1
    \/ /\ del'.pc = "accumulate_after" /\ del'.returned = "drained"
       /\ del'.new_cursor = DrainedCursor(del.min_snapshot_ts)
       /\ del.chunk_no = Len(ExpiredChunks(del))

\* C25: after a joined group delete() returns early
\* with (new_cursor, total) exactly when new_cursor > cursor and the total of
\* expired entries is at or above RETENTION_DELETE_BATCH; otherwise it
\* continues and returns (boundary.pred(), total) when the stream has drained.
C25_EarlyReturnInclusive ==
    [][GroupJoined =>
          /\ del'.total_expired_entries >= del.total_expired_entries
          /\ IF JoinedCursor > del.cursor
                /\ del.total_expired_entries >= RETENTION_DELETE_BATCH
             THEN /\ del'.pc = "accumulate_after" /\ del'.returned = "early"
                  /\ del'.new_cursor = JoinedCursor
                  /\ del'.total_expired_entries = del.total_expired_entries
             ELSE Continues]_vars

\* The step that ends a pass with Ok: after the checkpoint, or after the
\* second accumulation when it found the index count changed.
PassSucceeds ==
    \/ DelAdvanceCheckpoint
    \/ DelAccumulateAfter /\ del'.pc # "checkpoint"

\* C26: a pass that ends with Ok is followed at once by the next pass, with
\* the same boundary and nothing taken from the channel, exactly when
\* delete() reported at least RETENTION_DELETE_BATCH expired entries;
\* otherwise the deleter is at its receive, which waits while the channel is
\* empty and whose value is the boundary of the next pass.
C26_ContinuesImmediately ==
    /\ [][PassSucceeds =>
             /\ chan' = chan
             /\ del'.min_snapshot_ts = del.min_snapshot_ts
             /\ IF del.total_expired_entries >= RETENTION_DELETE_BATCH
                THEN del'.pc = "accumulate_before" /\ del'.is_working
                ELSE del'.pc = "recv" /\ ~del'.is_working]_vars
    /\ [][(del.pc = "accumulate_before" /\ del' # del /\ restarts' = restarts) =>
             /\ chan' = chan
             /\ del'.min_snapshot_ts = del.min_snapshot_ts]_vars
    /\ [][(del.pc = "recv" /\ del' # del /\ restarts' = restarts) =>
             /\ chan["Index"] # <<>>
             /\ del'.min_snapshot_ts = Head(chan["Index"])
             /\ del'.pc = "accumulate_before"]_vars

\* A pass has checkpointed and the next one is about to start with the same
\* boundary, while a newer boundary waits in the channel.
C26_Witness ==
    /\ del.pc = "accumulate_before"
    /\ del.is_working
    /\ restarts = 0
    /\ globals.confirmed_deleted # None
    /\ checkpoint = globals.confirmed_deleted
    /\ chan["Index"] # <<>>
    /\ Head(chan["Index"]) > del.min_snapshot_ts
    /\ del.min_snapshot_ts > UnwrapOrMin(checkpoint)

\* The step of a running leader in which the advancer, having written and
\* applied a new bound of the type rt, ends its advance_timestamp and
\* emit_timestamp of that type.
AdvanceEmitted(rt) ==
    /\ restarts' = restarts
    /\ adv.rt = rt
    /\ adv.pc \in {"get_checkpoint", "send"}
    /\ adv' = AfterEmit(rt)

\* C27: whenever the advancer has persisted a new index bound and applied it
\* in memory, it leaves the index part of its tick with that value sent on
\* the index channel.
C27_AdvancePublished ==
    [][AdvanceEmitted("Index") =>
          /\ bounds.min_snapshot_ts = adv.candidate
          /\ globals.min = Some(adv.candidate)
          /\ chan'["Index"] = <<adv.candidate>>]_vars

\* C28: a failed write of a new bound leaves the in-memory bounds and the
\* channels as they are and ends advance_timestamp and emit_timestamp of
\* that type; a write is only started for a candidate above the in-memory
\* bound, and starting it changes nothing; and a cell is only written by the
\* pending write, a bound only advanced after the write of its candidate,
\* a value only sent after its bound was advanced to it.
C28_FailedOrSkippedAdvance ==
    /\ [][(adv.pc = "persist" /\ adv' # adv /\ restarts' = restarts
           /\ globals' = globals) =>
             /\ bounds' = bounds
             /\ chan' = chan
             /\ adv' = AfterEmit(adv.rt)]_vars
    /\ [][(adv' # adv /\ restarts' = restarts) =>
             /\ adv'.pc = "persist" =>
                   /\ adv'.candidate = candidate_min_snapshot_ts(adv'.rt)
                   /\ adv'.candidate > BoundOf(bounds, adv'.rt)
             /\ adv.pc = "wait" =>
                   /\ globals' = globals /\ bounds' = bounds /\ chan' = chan
                   /\ (~SubFails("Index")
                       /\ candidate_min_snapshot_ts("Index") <= bounds.min_snapshot_ts) =>
                          adv'.rt # "Index" \/ adv'.pc = "wait"]_vars
    /\ [][restarts' = restarts =>
             \A rt \in RetentionTypes :
                 /\ globals'[BoundKey(rt)] # globals[BoundKey(rt)] =>
                        adv.pc = "persist" /\ adv.rt = rt
                 /\ BoundOf(bounds', rt) # BoundOf(bounds, rt) =>
                        /\ adv.pc = "memory" /\ adv.rt = rt
                        /\ globals[BoundKey(rt)] = Some(adv.candidate)
                 /\ Len(chan'[rt]) > Len(chan[rt]) =>
                        /\ adv.pc = "send" /\ adv.rt = rt
                        /\ BoundOf(bounds, rt) = adv.candidate]_vars

\* The write of the index bound has failed in this tick: the candidate is
\* above the in-memory index bound, nothing is in the index channel, and the
\* advancer is at the write of the document bound.
C28_Witness ==
    /\ restarts = 0
    /\ adv.pc = "persist" /\ adv.rt = "Document"
    /\ ~SubFails("Index")
    /\ candidate_min_snapshot_ts("Index") > bounds.min_snapshot_ts
    /\ globals.min = Some(bounds.min_snapshot_ts)
    /\ chan["Index"] = <<>>

\* C29: on a fresh leader the document bound stays at Timestamp::MIN while
\* the Checkpoint is empty, and a document bound above Timestamp::MIN is at
\* or below a Checkpoint that has been written; with transactions committing,
\* deletes enabled, no failing operation and fair scheduling, a pass of the
\* deleter writes the confirmed-deleted cell and the Checkpoint, and the
\* document bound eventually advances above Timestamp::MIN.
C29_BootstrapConverges ==
    /\ [](checkpoint = None => bounds.min_document_snapshot_ts = TimestampMIN)
    /\ [][checkpoint = None =>
              bounds'.min_document_snapshot_ts = bounds.min_document_snapshot_ts]_vars
    /\ [](bounds.min_document_snapshot_ts > TimestampMIN =>
              /\ globals.confirmed_deleted # None
              /\ bounds.min_document_snapshot_ts <= UnwrapOrMin(checkpoint))
    /\ <>(globals.confirmed_deleted # None /\ checkpoint = globals.confirmed_deleted)
    /\ <>(bounds.min_document_snapshot_ts > TimestampMIN)

\* The document bound has advanced above Timestamp::MIN, to the cursor the
\* deleter checkpointed.
C29_Witness ==
    /\ bounds.min_document_snapshot_ts > TimestampMIN
    /\ checkpoint = Some(bounds.min_document_snapshot_ts)
    /\ globals.doc_min = Some(bounds.min_document_snapshot_ts)
    /\ deletes_enabled

\* C30: with deletes enabled, no failing operation, no new index and a fairly
\* scheduled deleter, an index bound B published on the channel is eventually
\* the boundary of a pass of the deleter (or a later one is), and the
\* confirmed-deleted cell eventually reaches at least B.pred().
C30_DeleterProgress ==
    \A b \in {FixtureEnd - 1 - INDEX_RETENTION_DELAY} :
        /\ (chan["Index"] = <<b>>) ~> (del.pc # "recv" /\ del.min_snapshot_ts >= b)
        /\ (chan["Index"] = <<b>>) ~>
               (UnwrapOrMin(globals.confirmed_deleted) >= DrainedCursor(b))

\* C31: the boundary the deleter works with (received, reused while it
\* continues, or read from memory when the channel has failed) is at or below
\* the in-memory min_snapshot_ts, which is at or below the persisted index
\* bound; every index row that is deleted has a timestamp strictly below the
\* persisted index bound at the moment of its deletion.
C31_DeleterBehindBounds ==
    /\ [](del.min_snapshot_ts <= bounds.min_snapshot_ts)
    /\ [](bounds.min_snapshot_ts <= latest_retention_min_snapshot_ts(globals, "Index"))
    /\ [][\A r \in index_entries \ index_entries' :
              r.ts < latest_retention_min_snapshot_ts(globals, "Index")]_vars

\* The advancer was stopped in advance_timestamp of the index type after
\* the in-memory bound and before its send, and the deleter deletes with
\* that bound as its boundary: it has read it from memory.
C31_Witness ==
    /\ adv.pc = "shutdown"
    /\ adv.rt = "Index"
    /\ adv.candidate = bounds.min_snapshot_ts
    /\ del.pc = "shards"
    /\ del.min_snapshot_ts = adv.candidate
    /\ \E i \in del.pending :
          index_entries_to_delete(index_entries,
              partition_chunk(ExpiredChunks(del)[del.chunk_no], i)) # {}

\* The row an entry of the expired stream names.
RowOf(e) == Row(e.index_id, e.key, e.ts, e.deleted)

\* The entries of the revision at log position n under index i when they are
\* a pair: the previous revision's entry and the tombstone entry.
PairOf(n, i) == ExpiredOfRevision(documents, n, {i})
IsPair(n, i) == Len(PairOf(n, i)) = 2

\* The stream of the delete() call that is running.
StreamOfCall ==
    expired_index_entries(documents, del.cursor, del.min_snapshot_ts, del.all_indexes)

\* C32: a tombstone is never reclaimed before the entry it masks.  In the
\* expired stream of a running delete() a tombstone entry directly follows
\* the entry of the previous revision of the same index and key, and both
\* have the same shard; no step deletes the tombstone row of a pair while
\* the row of the previous revision stays, and in no state does the row of
\* the previous revision exist without the tombstone row.
C32_TombstoneAfterMasked ==
    /\ [](del.pc = "shards" =>
            LET stream == StreamOfCall
            IN  \A k \in 1..Len(stream) :
                    stream[k].deleted =>
                        /\ k > 1
                        /\ ~stream[k - 1].deleted
                        /\ stream[k - 1].index_id = stream[k].index_id
                        /\ stream[k - 1].key = stream[k].key
                        /\ stream[k - 1].ts < stream[k].ts
                        /\ \E i \in Shards :
                              /\ partition_chunk(<<stream[k - 1]>>, i) # <<>>
                              /\ partition_chunk(<<stream[k]>>, i) # <<>>)
    /\ [][index_entries' # index_entries =>
              \A n \in 1..Len(documents), i \in IndexIdSet :
                  LET pair == PairOf(n, i)
                  IN  (Len(pair) = 2 /\ RowOf(pair[2]) \in index_entries \ index_entries')
                          => RowOf(pair[1]) \notin index_entries']_vars
    /\ [](index_entries # {} =>
              \A n \in 1..Len(documents), i \in IndexIdSet :
                  LET pair == PairOf(n, i)
                  IN  (Len(pair) = 2 /\ RowOf(pair[1]) \in index_entries)
                          => RowOf(pair[2]) \in index_entries)

\* Between two groups: the row of the previous revision has been deleted by
\* the group before, and the tombstone row of the pair is in the group whose
\* shards are running.
C32_Witness ==
    /\ del.pc = "shards"
    /\ \E n \in 1..Len(documents), i \in IndexIdSet :
          /\ IsPair(n, i)
          /\ RowOf(PairOf(n, i)[1]) \notin index_entries
          /\ RowOf(PairOf(n, i)[2]) \in index_entries
          /\ \E k \in 1..Len(ExpiredChunks(del)[del.chunk_no]) :
                ExpiredChunks(del)[del.chunk_no][k] = PairOf(n, i)[2]

\* C33: index accumulation loses nothing: all_indexes holds the id of every
\* non-backfilling database-index document of the index metadata table whose
\* timestamp is above the cursor go_delete started with (Timestamp::MIN on
\* the fresh deployment) and at or below the current index_cursor, also after
\* calls that failed part-way and were retried from the saved cursor.
C33_AccumulationLosesNothing ==
    \A n \in 1..Len(documents) :
        (/\ documents[n].table = IndexTable
         /\ documents[n].doc # Tombstone
         /\ documents[n].doc.state \in DatabaseIndexStates \ {"Backfilling"}
         /\ documents[n].ts > TimestampMIN
         /\ documents[n].ts <= del.index_cursor)
            => documents[n].id \in del.all_indexes

\* C34: at every state, also after the leader has been constructed again
\* from the persisted cells with an empty Checkpoint, the persisted document
\* bound is at or below the persisted confirmed-deleted timestamp, an absent
\* cell counting as Timestamp::MIN.
C34_PersistedDocumentBoundBelowConfirmed ==
    latest_retention_min_snapshot_ts(globals, "Document")
        <= UnwrapOrMin(globals.confirmed_deleted)

\* The leader has been constructed again on a document cell above
\* Timestamp::MIN and its Checkpoint is still empty.
C34_Witness ==
    /\ restarts > 0
    /\ checkpoint = None
    /\ latest_retention_min_snapshot_ts(globals, "Document") > TimestampMIN
    /\ bounds.min_document_snapshot_ts
           = latest_retention_min_snapshot_ts(globals, "Document")

\* C35: a pass of the deleter that fails (loading the checkpoint, either
\* accumulation, delete() or the write of the checkpoint) leaves the
\* in-memory Checkpoint as it was, and the deleter retries with the same
\* boundary without receiving from the channel: the step that follows the
\* backoff starts a pass on that boundary and takes nothing from the channel.
C35_FailedPassRetries ==
    /\ [][DelError =>
              /\ checkpoint' = checkpoint
              /\ chan' = chan
              /\ del'.is_working
              /\ del'.pc = "accumulate_before"
              /\ del'.min_snapshot_ts = del.min_snapshot_ts]_vars
    /\ [][(del.pc = "accumulate_before" /\ del' # del /\ restarts' = restarts) =>
              /\ chan' = chan
              /\ del'.min_snapshot_ts = del.min_snapshot_ts]_vars
    /\ [](del.pc # "recv" => del.is_working)

\* A pass has failed after a shard deleted the row of a previous revision:
\* no checkpoint was written, no index was added, and the deleter is about
\* to retry on the boundary of the failed pass.
C35_Witness ==
    /\ restarts = 0
    /\ del.pc = "accumulate_before"
    /\ del.is_working
    /\ del.min_snapshot_ts > TimestampMIN
    /\ globals.confirmed_deleted = None
    /\ checkpoint = None
    /\ \A n \in 1..Len(documents) :
          documents[n].table = IndexTable => documents[n].ts = TimestampMIN
    /\ \E n \in 1..Len(documents) :
          /\ PairOf(n, "by_id") # <<>>
          /\ RowOf(PairOf(n, "by_id")[1]) \notin index_entries

\* C36: the in-memory Checkpoint mirrors the confirmed-deleted cell from
\* below: a Checkpoint Some(c) has c at or below the cell; the step that
\* advances the Checkpoint leaves the cell, which already holds the cursor,
\* and makes the Checkpoint equal to it; the Checkpoint changes in no other
\* step of a running leader.
C36_CheckpointMirrorsCell ==
    /\ [](checkpoint # None =>
              /\ globals.confirmed_deleted # None
              /\ UnwrapOrMin(checkpoint) <= UnwrapOrMin(globals.confirmed_deleted))
    /\ [][DelAdvanceCheckpoint =>
              /\ globals.confirmed_deleted = Some(del.new_cursor)
              /\ globals' = globals
              /\ checkpoint' = globals'.confirmed_deleted]_vars
    /\ [][(checkpoint' # checkpoint /\ restarts' = restarts) =>
              (del.pc = "advance_checkpoint" /\ checkpoint' = globals.confirmed_deleted)]_vars

\* Between the two steps of checkpoint(): the cell holds the new cursor and
\* the Checkpoint still holds the one before.
C36_Witness ==
    /\ del.pc = "advance_checkpoint"
    /\ checkpoint # None
    /\ UnwrapOrMin(checkpoint) < UnwrapOrMin(globals.confirmed_deleted)
====
